---- MODULE Spec2Model ----
(***************************************************************************)
(* Verification model of spatial-touch: the pinch state machine            *)
(* (PinchDetector), the gesture synthesiser (GestureEngine) and the frame  *)
(* pipeline of SpatialTouchController with its ActionDispatcher.           *)
(*                                                                         *)
(* Units: normalized coordinates and distances are integers in 1/100 of    *)
(* the unit interval (0.05 is 5); times are integer milliseconds.          *)
(* Optional values (Python None) are sequences: <<>> is None, <<v>> is v.  *)
(***************************************************************************)
EXTENDS Integers, Sequences, FiniteSets, TLC

VARIABLES
    cfg,            \* PinchDetector parameters bound at construction
    now,            \* last value read from time.time() * 1000
    det,            \* a stand-alone PinchDetector instance
    det_op,         \* last call made on det: "init", "update" or "reset"
    in_distance,    \* distance argument of the last det.update call
    hist,           \* history of det: times of its last transitions
    config,         \* GestureEngine.config (GestureConfig)
    left_pinch,     \* GestureEngine._left_pinch
    right_pinch,    \* GestureEngine._right_pinch
    last_position,  \* GestureEngine._last_position
    is_dragging,    \* GestureEngine._is_dragging
    eng_op,         \* last call made on the engine: "init", "process" or "reset"
    in_hand,        \* hand argument of the last process call
    returned,       \* list returned by the last process call
    dispatched,     \* gestures passed to _trigger_callbacks by the last call
    ehist,          \* history of the gestures dispatched by the engine
    callbacks,      \* GestureEngine._callbacks: the observers of each gesture type
    invoked,        \* observer invocations made by the last call, in order
    raised,         \* the last call was left by an exception
    dispatcher,     \* the controller's ActionDispatcher
    in_frame,       \* what the last frame held: "init", "no_frame", "no_hand" or "hand"
    zone_config,    \* ZoneMapper.config (ZoneConfig)
    zone_last,      \* ZoneMapper._last_position
    zone_op,        \* last call made on the mapper: "init", "map_position" or "reset"
    zone_in,        \* normalized_pos argument of the last map_position call
    zone_out,       \* ScreenPoint returned by the last map_position call
    zone_repeat,    \* the last two calls were map_position calls with one argument
    zone_zone,      \* ScreenZone returned by the last get_zone call
    zone_edges,     \* flags returned by the last get_edge_proximity call
    zone_resized,   \* update_screen_size has been called on the mapper
    sm,             \* the smoother a client holds, None before it is constructed
    sm_op,          \* last call made: "none", "new", "update", "reset" or "set_alpha"
    sm_in,          \* arguments of the last call
    sm_out,         \* value returned by the last update call
    sm_raised,      \* exception that left the last call, "" when it returned
    sm_calls,       \* number of calls made on the smoother
    sm_prev,        \* the call made before the last one
    sm_updates,     \* number of update calls made on the smoother
    hd_hand,        \* the HandData a client holds
    hd_op,          \* last accessor called: "init", "property" or "get_landmark"
    hd_index,       \* landmark index the last accessor asked for
    hd_out,         \* what the last accessor returned, and the exception that left it
    disp_op,        \* last ActionDispatcher call: "init", "start", "stop" or "handle_gesture"
    disp_in,        \* type of the gesture last handed to handle_gesture
    disp_ok,         \* whether the pyautogui call made by the last call succeeded
    frame_pos       \* screen_pos given to each gesture of the last frame handled, in order

detVars == <<cfg, det, det_op, in_distance, hist>>

engVars == <<config, left_pinch, right_pinch, last_position, is_dragging,
             eng_op, in_hand, returned, dispatched, ehist, callbacks, invoked, raised>>

ctlVars == <<dispatcher, in_frame>>

zoneVars == <<zone_config, zone_last, zone_op, zone_in, zone_out, zone_repeat,
             zone_zone, zone_edges, zone_resized>>

smVars == <<sm, sm_op, sm_in, sm_out, sm_raised, sm_calls, sm_prev, sm_updates>>

hdVars == <<hd_hand, hd_op, hd_index, hd_out>>

dispVars == <<disp_op, disp_in, disp_ok>>

frameVars == <<frame_pos>>

vars == <<now, detVars, engVars, ctlVars, zoneVars, smVars, hdVars, dispVars, frameVars>>

----------------------------------------------------------------------------
(* Bounds of the model *)

\* first clock reading; the real clock is the epoch in ms, far above debounce_ms
Epoch == 5
\* number of milliseconds of behaviour explored after Epoch
Horizon == 8
\* largest clock advance between two consecutive clock readings
MaxDt == 3

MaxTime == Epoch + Horizon

\* the same two bounds for the engine, whose state holds two detectors
EngineHorizon == 5
EngineMaxTime == Epoch + EngineHorizon
\* clock advances offered between two process calls
EngineSteps == {0, 1, 2}

\* pinch_threshold, 0.05 in units of 1/100
Threshold == 5
\* debounce_ms values explored (0 is the value used by the tests)
DebounceSet == {0, 2}
\* hold_ms / hold_time_ms values explored
HoldSet == {1, 2}

\* debounce_ms and hold_time_ms of the engine: the debounce of the tests (which
\* refuses no pinch) and a hold time that two clock steps can straddle
EngineDebounceSet == {0}
EngineHoldSet == {1}

\* distances offered to PinchDetector.update: 0.03, the threshold itself, 0.10
Distances == {3, Threshold, 10}

----------------------------------------------------------------------------
(* Optional values *)

None == <<>>
Some(v) == <<v>>
\* the value of an optional time, 0 when absent
TimeOr0(o) == IF o = <<>> THEN 0 ELSE o[1]

----------------------------------------------------------------------------
(* GestureState and PinchDetector *)

IDLE == "IDLE"
TRIGGERED == "TRIGGERED"
HOLDING == "HOLDING"
RELEASED == "RELEASED"
GestureState == {IDLE, TRIGGERED, HOLDING, RELEASED}

ConfigSet == [threshold : {Threshold}, debounce_ms : DebounceSet, hold_ms : HoldSet]

\* PinchDetector.__init__
PinchDetectorInit ==
    [state |-> IDLE, pinch_start_time |-> None, last_trigger_time |-> 0,
     is_pinched |-> FALSE, was_pinched |-> FALSE]

\* Python truthiness of Optional[float]: None and 0.0 are false
Truthy(o) == o # <<>> /\ o[1] # 0

\* PinchDetector.update with one deliberate fault, selected by bug:
\*   "skip_released"  HOLDING goes straight back to IDLE on release
\*   "sticky_release" RELEASED re-arms directly when pinched and debounced
\*   "hold_ge"        the hold test is >= instead of >
\*   "clock_on_idle"  the debounce clock is set by RELEASED -> IDLE
\*   "clock_on_trig"  the debounce clock is set by IDLE -> TRIGGERED
FaultyPinchUpdate(c, d, distance, current_time, bug) ==
    LET pinched == distance < c.threshold
        d1 == [d EXCEPT !.was_pinched = d.is_pinched, !.is_pinched = pinched]
        rel == IF bug \in {"clock_on_idle", "clock_on_trig"}
               THEN [d1 EXCEPT !.state = RELEASED]
               ELSE [d1 EXCEPT !.state = RELEASED, !.last_trigger_time = current_time]
        trg == IF bug = "clock_on_trig"
               THEN [d1 EXCEPT !.state = TRIGGERED,
                               !.pinch_start_time = Some(current_time),
                               !.last_trigger_time = current_time]
               ELSE [d1 EXCEPT !.state = TRIGGERED,
                               !.pinch_start_time = Some(current_time)]
        debounced == current_time - d.last_trigger_time > c.debounce_ms
        held == IF bug = "hold_ge"
                THEN current_time - d.pinch_start_time[1] >= c.hold_ms
                ELSE current_time - d.pinch_start_time[1] > c.hold_ms
    IN  CASE d.state = IDLE -> IF pinched /\ debounced THEN trg ELSE d1
          [] d.state = TRIGGERED ->
               IF ~pinched THEN rel
               ELSE IF d.pinch_start_time # <<>> /\ d.pinch_start_time[1] # 0 /\ held
                    THEN [d1 EXCEPT !.state = HOLDING]
                    ELSE d1
          [] d.state = HOLDING ->
               IF pinched THEN d1
               ELSE IF bug = "skip_released"
                    THEN [d1 EXCEPT !.state = IDLE, !.pinch_start_time = <<>>,
                                    !.last_trigger_time = current_time]
                    ELSE rel
          [] d.state = RELEASED ->
               IF bug = "sticky_release" /\ pinched /\ debounced THEN trg
               ELSE IF bug = "clock_on_idle"
                    THEN [d1 EXCEPT !.state = IDLE, !.pinch_start_time = <<>>,
                                    !.last_trigger_time = current_time]
                    ELSE [d1 EXCEPT !.state = IDLE, !.pinch_start_time = <<>>]

PinchUpdate_SkipReleased(c, d, distance, current_time) ==
    FaultyPinchUpdate(c, d, distance, current_time, "skip_released")
PinchUpdate_StickyRelease(c, d, distance, current_time) ==
    FaultyPinchUpdate(c, d, distance, current_time, "sticky_release")
PinchUpdate_HoldGe(c, d, distance, current_time) ==
    FaultyPinchUpdate(c, d, distance, current_time, "hold_ge")
PinchUpdate_ClockOnIdle(c, d, distance, current_time) ==
    FaultyPinchUpdate(c, d, distance, current_time, "clock_on_idle")
PinchUpdate_ClockOnTrigger(c, d, distance, current_time) ==
    FaultyPinchUpdate(c, d, distance, current_time, "clock_on_trig")

\* PinchDetector.update(distance) when time.time()*1000 reads current_time
PinchUpdate(c, d, distance, current_time) ==
    LET pinched == distance < c.threshold
        d1 == [d EXCEPT !.was_pinched = d.is_pinched, !.is_pinched = pinched]
    IN  CASE d.state = IDLE ->
               IF pinched /\ current_time - d.last_trigger_time > c.debounce_ms
               THEN [d1 EXCEPT !.state = TRIGGERED,
                               !.pinch_start_time = Some(current_time)]
               ELSE d1
          [] d.state = TRIGGERED ->
               IF ~pinched
               THEN [d1 EXCEPT !.state = RELEASED,
                               !.last_trigger_time = current_time]
               ELSE IF Truthy(d.pinch_start_time)
                       /\ current_time - d.pinch_start_time[1] > c.hold_ms
                    THEN [d1 EXCEPT !.state = HOLDING]
                    ELSE d1
          [] d.state = HOLDING ->
               IF ~pinched
               THEN [d1 EXCEPT !.state = RELEASED,
                               !.last_trigger_time = current_time]
               ELSE d1
          [] d.state = RELEASED ->
               [d1 EXCEPT !.state = IDLE, !.pinch_start_time = None]

\* PinchDetector.reset() that clears the flags but forgets to force IDLE
PinchReset_KeepState(d) ==
    [d EXCEPT !.pinch_start_time = <<>>, !.is_pinched = FALSE, !.was_pinched = FALSE]

\* PinchDetector.reset() that only forgets when the pinch began
PinchReset_OnlyTimer(d) == [d EXCEPT !.pinch_start_time = <<>>]

\* PinchDetector.reset() that also clears the debounce clock
PinchReset_ClearsClock(d) ==
    [d EXCEPT !.state = IDLE, !.pinch_start_time = <<>>, !.last_trigger_time = 0,
              !.is_pinched = FALSE, !.was_pinched = FALSE]

\* PinchDetector.reset()
PinchReset(d) ==
    [d EXCEPT !.state = IDLE, !.pinch_start_time = None,
              !.is_pinched = FALSE, !.was_pinched = FALSE]

----------------------------------------------------------------------------
(* A stand-alone PinchDetector driven by update and reset calls *)

\* history of the detector's transitions, kept beside the detector:
\*   trig       time of the last call that performed IDLE -> TRIGGERED
\*   rel        time of the last call that entered RELEASED
\*   idle       time of the last update call that performed RELEASED -> IDLE
\*   fresh      no IDLE -> TRIGGERED transition since construction or the last reset
\*   all_below  every update since the last IDLE -> TRIGGERED saw distance < threshold
\*   reset_from state in which reset() was last called ("" if never)
HistInit ==
    [trig |-> None, rel |-> None, idle |-> None, fresh |-> TRUE,
     all_below |-> FALSE, reset_from |-> ""]

HistUpdate(h, old, new, t, below) ==
    [trig  |-> IF old.state = IDLE /\ new.state = TRIGGERED THEN Some(t) ELSE h.trig,
     rel   |-> IF old.state # RELEASED /\ new.state = RELEASED THEN Some(t) ELSE h.rel,
     idle  |-> IF old.state = RELEASED /\ new.state = IDLE THEN Some(t) ELSE h.idle,
     fresh |-> h.fresh /\ ~(old.state = IDLE /\ new.state = TRIGGERED),
     all_below |-> IF old.state = IDLE /\ new.state = TRIGGERED THEN TRUE
                   ELSE h.all_below /\ below,
     reset_from |-> h.reset_from]

DetInit ==
    /\ det = PinchDetectorInit
    /\ det_op = "init"
    /\ in_distance = 0
    /\ hist = HistInit

\* det.update(distance), dt milliseconds after the previous clock reading
DetUpdate(distance, dt) ==
    /\ now + dt <= MaxTime
    /\ now' = now + dt
    /\ det' = PinchUpdate(cfg, det, distance, now')
    /\ det_op' = "update"
    /\ in_distance' = distance
    /\ hist' = HistUpdate(hist, det, det', now', distance < cfg.threshold)
    /\ UNCHANGED cfg

\* det.reset()
DetReset ==
    /\ det' = PinchReset(det)
    /\ det_op' = "reset"
    /\ hist' = [hist EXCEPT !.fresh = TRUE, !.reset_from = det.state]
    /\ UNCHANGED <<cfg, now, in_distance>>

----------------------------------------------------------------------------
(* HandData and Point3D *)

\* HandLandmark indices of the three fingertips the engine reads
THUMB_TIP == 4
INDEX_TIP == 8
MIDDLE_TIP == 12
\* length of a complete landmarks list
NumLandmarks == 21

\* largest integer whose square is at most n
RECURSIVE ISqrtFrom(_, _)
ISqrtFrom(n, r) == IF (r + 1) * (r + 1) > n THEN r ELSE ISqrtFrom(n, r + 1)
ISqrt(n) == ISqrtFrom(n, 0)

\* Point3D.distance_to, rounded down to 1/100 (a distance is only ever
\* compared with the integer threshold, and floor(d) < T iff d < T)
distance_to(p, q) ==
    ISqrt((p[1] - q[1]) * (p[1] - q[1]) + (p[2] - q[2]) * (p[2] - q[2])
          + (p[3] - q[3]) * (p[3] - q[3]))

\* HandData._get_landmark: absent for an invalid hand or an index beyond the list
get_landmark(hand, index, point) ==
    IF hand.is_valid /\ 0 <= index /\ index < hand.count THEN Some(point) ELSE None

thumb_tip(hand) == get_landmark(hand, THUMB_TIP, hand.thumb)
index_tip(hand) == get_landmark(hand, INDEX_TIP, hand.index)
middle_tip(hand) == get_landmark(hand, MIDDLE_TIP, hand.middle)

\* fingertip positions offered by the landmark provider
ThumbTips == {<<50, 50, 0>>}
\* index tips at distance 2, 3 and 10 from the thumb tip
IndexTips == {<<52, 50, 0>>, <<50, 53, 0>>, <<60, 50, 0>>}
\* middle tips at distance 3 and, apart in depth only, 6.7
MiddleTips == {<<50, 47, 0>>, <<50, 47, 6>>}

\* a hand is its validity flag, the length of its landmarks list and the
\* three fingertip entries of that list
AllHands ==
    [is_valid : BOOLEAN, count : {0, INDEX_TIP + 1, NumLandmarks},
     thumb : ThumbTips, index : IndexTips, middle : MiddleTips]

\* the pinching hand of the tests
PinchingHand ==
    [is_valid |-> TRUE, count |-> NumLandmarks, thumb |-> <<50, 50, 0>>,
     index |-> <<52, 50, 0>>, middle |-> <<50, 47, 6>>]

\* hands offered to the engine: every complete valid hand; the pinching hand
\* with its landmarks list cut off after the index tip; HandData(is_valid=False),
\* empty or still holding the pinching hand's landmarks
Hands ==
    {h \in AllHands : h.is_valid /\ h.count = NumLandmarks}
    \cup {[PinchingHand EXCEPT !.count = INDEX_TIP + 1]}
    \cup {[PinchingHand EXCEPT !.is_valid = FALSE, !.count = n] : n \in {0, NumLandmarks}}

\* HandLandmark: the indices 0 to 20
HandLandmark == 0 .. (NumLandmarks - 1)

\* indices of the landmark properties: wrist, thumb_tip, index_tip,
\* middle_tip, ring_tip, pinky_tip
LandmarkProperties == {0, THUMB_TIP, INDEX_TIP, MIDDLE_TIP, 16, 20}

\* indices offered to get_landmark
LandmarkIndices == LandmarkProperties \cup {0 - 1, NumLandmarks}

\* landmarks[index]: the three fingertips the engine reads are the fields of
\* the hand, every other landmark is one point
landmark(hand, index) ==
    CASE index = THUMB_TIP -> hand.thumb
      [] index = INDEX_TIP -> hand.index
      [] index = MIDDLE_TIP -> hand.middle
      [] OTHER -> <<50, 60, 0>>

\* HandData.get_landmark(index): HandLandmark(index) raises ValueError for an
\* integer that is no member of the enumeration
public_get_landmark(hand, index) ==
    IF index \notin HandLandmark
    THEN [raised |-> "ValueError", value |-> None]
    ELSE [raised |-> "", value |-> get_landmark(hand, index, landmark(hand, index))]

\* a client holds a HandData
HandInit ==
    /\ hd_hand = PinchingHand
    /\ hd_op = "init"
    /\ hd_index = 0
    /\ hd_out = [raised |-> "", value |-> None]

\* hand.wrist, hand.thumb_tip, ..., hand.pinky_tip
ReadProperty(index) ==
    /\ hd_op' = "property"
    /\ hd_index' = index
    /\ hd_out' = [raised |-> "",
                  value |-> get_landmark(hd_hand, index, landmark(hd_hand, index))]
    /\ UNCHANGED hd_hand

\* hand.get_landmark(index)
GetLandmark(index) ==
    /\ hd_op' = "get_landmark"
    /\ hd_index' = index
    /\ hd_out' = public_get_landmark(hd_hand, index)
    /\ UNCHANGED hd_hand

\* hands on which GestureEngine.process reaches the detectors
Complete(hand) == hand.is_valid /\ hand.count = NumLandmarks

----------------------------------------------------------------------------
(* GestureEngine *)

NONE == "NONE"
CURSOR_MOVE == "CURSOR_MOVE"
LEFT_CLICK == "LEFT_CLICK"
RIGHT_CLICK == "RIGHT_CLICK"
DRAG_START == "DRAG_START"
DRAG_MOVE == "DRAG_MOVE"
DRAG_END == "DRAG_END"
SCROLL_UP == "SCROLL_UP"
SCROLL_DOWN == "SCROLL_DOWN"
GestureType ==
    {NONE, CURSOR_MOVE, LEFT_CLICK, RIGHT_CLICK, DRAG_START, DRAG_MOVE, DRAG_END,
     SCROLL_UP, SCROLL_DOWN}

\* Gesture(type, position, metadata); confidence and timestamp keep their defaults
Gesture(type, position, metadata) ==
    [type |-> type, position |-> position, metadata |-> metadata]

\* velocity_threshold, 0.01 in units of 1/100
VelocityThreshold == 1
\* click_release_ms
ClickReleaseMs == 2

GestureConfigSet ==
    [pinch_threshold : {Threshold}, debounce_ms : EngineDebounceSet,
     hold_time_ms : EngineHoldSet, click_release_ms : {ClickReleaseMs},
     velocity_threshold : {VelocityThreshold}]

DefaultConfig == CHOOSE c \in GestureConfigSet : TRUE

\* the parameters GestureEngine.__init__ passes to both detectors
PinchParams(c) ==
    [threshold |-> c.pinch_threshold, debounce_ms |-> c.debounce_ms,
     hold_ms |-> c.hold_time_ms]

Abs(x) == IF x < 0 THEN 0 - x ELSE x

\* _process_cursor_move that also reports a move of exactly the threshold
ProcessCursorMove_Ge(c, last, position) ==
    IF last = <<>> THEN <<>>
    ELSE LET dx == Abs(position[1] - last[1][1])
             dy == Abs(position[2] - last[1][2])
         IN  IF dx >= c.velocity_threshold \/ dy >= c.velocity_threshold
             THEN <<Gesture(CURSOR_MOVE, position, <<dx, dy>>)>>
             ELSE <<>>

\* GestureEngine._process_cursor_move: the gestures it contributes
ProcessCursorMove(c, last, position) ==
    IF last = None THEN <<>>
    ELSE LET dx == Abs(position[1] - last[1][1])
             dy == Abs(position[2] - last[1][2])
         IN  IF dx > c.velocity_threshold \/ dy > c.velocity_threshold
             THEN <<Gesture(CURSOR_MOVE, position, <<dx, dy>>)>>
             ELSE <<>>

\* a position update that only follows the cursor when a move was reported
UpdateLastPosition_OnMove(last, cursor_pos, cursor) ==
    IF cursor = <<>> /\ last # <<>> THEN last ELSE <<cursor_pos>>

\* a position update that keeps the first position stored since tracking began
UpdateLastPosition_KeepsFirst(last, cursor_pos, cursor) ==
    IF last = <<>> THEN <<cursor_pos>> ELSE last

\* "self._last_position = cursor_pos" at the end of process; cursor is the
\* cursor-move gesture list of the tick, which the assignment does not read
UpdateLastPosition(last, cursor_pos, cursor) == Some(cursor_pos)

\* _process_left_pinch that reports every release as a click
ProcessLeftPinch_AlwaysClick(state, dragging, position) ==
    CASE state = HOLDING ->
           IF ~dragging
           THEN [gestures |-> <<Gesture(DRAG_START, position, <<>>)>>, dragging |-> TRUE]
           ELSE [gestures |-> <<Gesture(DRAG_MOVE, position, <<>>)>>, dragging |-> dragging]
      [] state = RELEASED ->
           [gestures |-> <<Gesture(LEFT_CLICK, position, <<>>)>>, dragging |-> FALSE]
      [] OTHER -> [gestures |-> <<>>, dragging |-> dragging]

\* _process_left_pinch that starts a drag on every HOLDING frame
ProcessLeftPinch_RestartsDrag(state, dragging, position) ==
    CASE state = HOLDING ->
           [gestures |-> <<Gesture(DRAG_START, position, <<>>)>>, dragging |-> TRUE]
      [] state = RELEASED ->
           IF dragging
           THEN [gestures |-> <<Gesture(DRAG_END, position, <<>>)>>, dragging |-> FALSE]
           ELSE [gestures |-> <<Gesture(LEFT_CLICK, position, <<>>)>>, dragging |-> dragging]
      [] OTHER -> [gestures |-> <<>>, dragging |-> dragging]

\* GestureEngine._process_left_pinch: the gestures it returns and the drag flag
\* it leaves
ProcessLeftPinch(state, dragging, position) ==
    CASE state = TRIGGERED -> [gestures |-> <<>>, dragging |-> dragging]
      [] state = HOLDING ->
           IF ~dragging
           THEN [gestures |-> <<Gesture(DRAG_START, position, <<>>)>>, dragging |-> TRUE]
           ELSE [gestures |-> <<Gesture(DRAG_MOVE, position, <<>>)>>, dragging |-> dragging]
      [] state = RELEASED ->
           IF dragging
           THEN [gestures |-> <<Gesture(DRAG_END, position, <<>>)>>, dragging |-> FALSE]
           ELSE [gestures |-> <<Gesture(LEFT_CLICK, position, <<>>)>>, dragging |-> dragging]
      [] OTHER -> [gestures |-> <<>>, dragging |-> dragging]

\* _process_right_pinch that also clicks while the pinch is held
ProcessRightPinch_OnHold(state, position) ==
    IF state \in {RELEASED, HOLDING} THEN <<Gesture(RIGHT_CLICK, position, <<>>)>> ELSE <<>>

\* GestureEngine._process_right_pinch
ProcessRightPinch(state, position) ==
    IF state = RELEASED THEN <<Gesture(RIGHT_CLICK, position, <<>>)>> ELSE <<>>

\* history of the gestures the engine has dispatched:
\*   drag     "closed", "open" after a DRAG_START without its DRAG_END, "bad"
\*            once a drag gesture arrived out of order
\*   n_start, n_end, n_click   DRAG_START, DRAG_END and LEFT_CLICK gestures
\*            dispatched since the left detector last triggered (counted up to 2)
\*   held     the left detector has been HOLDING since it last triggered
\*   lost     the states in which the last call found the left and the right
\*            detector, when that call was a process call with an invalid
\*            hand; <<>> after any other call
EHistInit ==
    [drag |-> "closed", n_start |-> 0, n_end |-> 0, n_click |-> 0, held |-> FALSE,
     lost |-> <<>>]

DragStep(d, type) ==
    CASE type = DRAG_START -> IF d = "closed" THEN "open" ELSE "bad"
      [] type = DRAG_MOVE -> IF d = "open" THEN "open" ELSE "bad"
      [] type = DRAG_END -> IF d = "open" THEN "closed" ELSE "bad"
      [] OTHER -> d

RECURSIVE DragScan(_, _)
DragScan(d, gestures) ==
    IF gestures = <<>> THEN d
    ELSE DragScan(DragStep(d, Head(gestures).type), Tail(gestures))

Count(gestures, type) == Len(SelectSeq(gestures, LAMBDA g : g.type = type))
Min(a, b) == IF a < b THEN a ELSE b

EHistUpdate(h, oldLeft, newLeft, gestures) ==
    IF oldLeft.state = IDLE /\ newLeft.state = TRIGGERED
    THEN [drag |-> DragScan(h.drag, gestures),
          n_start |-> Count(gestures, DRAG_START),
          n_end |-> Count(gestures, DRAG_END),
          n_click |-> Count(gestures, LEFT_CLICK),
          held |-> FALSE,
          lost |-> <<>>]
    ELSE [drag |-> DragScan(h.drag, gestures),
          n_start |-> Min(2, h.n_start + Count(gestures, DRAG_START)),
          n_end |-> Min(2, h.n_end + Count(gestures, DRAG_END)),
          n_click |-> Min(2, h.n_click + Count(gestures, LEFT_CLICK)),
          held |-> h.held \/ newLeft.state = HOLDING,
          lost |-> <<>>]

\* observers a client may register; an observer is known by its identity
Observers == {1, 2}

\* GestureEngine._callbacks after __init__: an empty list for every type
CallbacksInit == [t \in GestureType |-> <<>>]

\* GestureEngine.on_gesture: the registry it leaves
on_gesture(cbs, gesture_type, callback) ==
    [cbs EXCEPT ![gesture_type] = Append(@, callback)]

\* list.remove(callback): the list without the first occurrence of callback
RECURSIVE Remove(_, _)
Remove(list, callback) ==
    IF list = <<>> THEN <<>>
    ELSE IF Head(list) = callback THEN Tail(list)
         ELSE <<Head(list)>> \o Remove(Tail(list), callback)

\* GestureEngine.off_gesture: the registry it leaves
off_gesture(cbs, gesture_type, callback) ==
    [cbs EXCEPT ![gesture_type] = Remove(@, callback)]

\* what an observer does to the engine while it is being called: nothing,
\* off_gesture(type, cb) or on_gesture(type, cb) for the type being dispatched
ObserverActs ==
    {[op |-> "none", cb |-> 0]}
    \cup [op : {"off_gesture", "on_gesture"}, cb : Observers]

\* most entries an observer lets the list of one type grow to
MaxRegistered == 3

\* the registry after an observer's call that performs act
ObserverCall(cbs, gesture_type, act) ==
    CASE act.op = "off_gesture" -> off_gesture(cbs, gesture_type, act.cb)
      [] act.op = "on_gesture" ->
           IF Len(cbs[gesture_type]) < MaxRegistered
           THEN on_gesture(cbs, gesture_type, act.cb) ELSE cbs
      [] OTHER -> cbs

\* "for callback in self._callbacks[gesture.type]" over the list itself: the
\* iterator holds an index i into the list, which the observers' calls may
\* shorten or lengthen meanwhile; acts[cb] is what observer cb does when called
RECURSIVE TriggerCallbacksLive(_, _, _, _, _)
TriggerCallbacksLive(cbs, gesture_type, acts, i, done) ==
    IF i > Len(cbs[gesture_type]) THEN [callbacks |-> cbs, invoked |-> done]
    ELSE LET callback == cbs[gesture_type][i]
         IN  TriggerCallbacksLive(
                 ObserverCall(cbs, gesture_type, acts[callback]), gesture_type, acts,
                 i + 1,
                 Append(done, [type |-> gesture_type, cb |-> callback, raises |-> FALSE]))

\* the calls made by "for callback in self._callbacks[gesture.type]" when every
\* exception is caught: each listed observer is called; raising is the set of
\* observers that raise an Exception when called
RECURSIVE CallAll(_, _, _)
CallAll(list, gesture, raising) ==
    IF list = <<>> THEN <<>>
    ELSE <<[type |-> gesture.type, cb |-> Head(list), raises |-> Head(list) \in raising]>>
         \o CallAll(Tail(list), gesture, raising)

\* the same loop without the try/except: it ends at the first observer that raises
RECURSIVE CallUntilRaise(_, _, _)
CallUntilRaise(list, gesture, raising) ==
    IF list = <<>> THEN <<>>
    ELSE IF Head(list) \in raising
         THEN <<[type |-> gesture.type, cb |-> Head(list), raises |-> TRUE]>>
         ELSE <<[type |-> gesture.type, cb |-> Head(list), raises |-> FALSE]>>
              \o CallUntilRaise(Tail(list), gesture, raising)

\* _trigger_callbacks that lets an observer's exception through
TriggerCallbacks_NoCatch(cbs, gesture, raising) ==
    LET inv == CallUntilRaise(cbs[gesture.type], gesture, raising)
    IN  [invoked |-> inv, propagated |-> inv # <<>> /\ inv[Len(inv)].raises]

\* GestureEngine._trigger_callbacks(gesture): the observer calls it makes and
\* whether it is left by an exception (the except clause catches each one)
TriggerCallbacks(cbs, gesture, raising) ==
    [invoked |-> CallAll(cbs[gesture.type], gesture, raising), propagated |-> FALSE]

\* the loop "for gesture in gestures: self._trigger_callbacks(gesture)", which
\* an exception leaving _trigger_callbacks would end; done is what the loop
\* has done so far
RECURSIVE DispatchFrom(_, _, _, _)
DispatchFrom(cbs, gestures, raising, done) ==
    IF gestures = <<>> THEN done
    ELSE LET first == TriggerCallbacks(cbs, Head(gestures), raising)
             then == [invoked |-> done.invoked \o first.invoked,
                      dispatched |-> Append(done.dispatched, Head(gestures)),
                      propagated |-> first.propagated]
         IN  IF then.propagated THEN then
             ELSE DispatchFrom(cbs, Tail(gestures), raising, then)

Dispatch(cbs, gestures, raising) ==
    DispatchFrom(cbs, gestures, raising,
                 [invoked |-> <<>>, dispatched |-> <<>>, propagated |-> FALSE])

\* GestureEngine.__init__
EngineInit ==
    /\ left_pinch = PinchDetectorInit
    /\ right_pinch = PinchDetectorInit
    /\ last_position = None
    /\ is_dragging = FALSE
    /\ eng_op = "init"
    /\ in_hand = CHOOSE h \in Hands : ~h.is_valid
    /\ returned = <<>>
    /\ dispatched = <<>>
    /\ ehist = EHistInit
    /\ callbacks = CallbacksInit
    /\ invoked = <<>>
    /\ raised = FALSE

\* _reset_on_no_hand that drops an active drag without a DRAG_END
ResetOnNoHandGestures_Silent == <<>>

\* GestureEngine._reset_on_no_hand: the gestures it hands to _trigger_callbacks
ResetOnNoHandGestures ==
    IF is_dragging
    THEN <<Gesture(DRAG_END,
                   IF last_position = None THEN <<0, 0>> ELSE last_position[1],
                   <<>>)>>
    ELSE <<>>

\* GestureEngine.process(hand) for a hand that is not valid: _reset_on_no_hand
\* clears the drag flag, dispatches the DRAG_END, then resets the detectors
\* and the position
ProcessInvalid(hand, raising) ==
    /\ ~hand.is_valid
    /\ \E out \in {Dispatch(callbacks, ResetOnNoHandGestures, raising)} :
           /\ dispatched' = out.dispatched
           /\ invoked' = out.invoked
           /\ raised' = out.propagated
    /\ is_dragging' = FALSE
    /\ left_pinch' = IF raised' THEN left_pinch ELSE PinchReset(left_pinch)
    /\ right_pinch' = IF raised' THEN right_pinch ELSE PinchReset(right_pinch)
    /\ last_position' = IF raised' THEN last_position ELSE None
    /\ returned' = <<>>
    /\ ehist' = [EHistUpdate(ehist, left_pinch, left_pinch', dispatched')
                   EXCEPT !.lost = <<left_pinch.state, right_pinch.state>>]
    /\ UNCHANGED now

\* an early return on a missing fingertip that also forgets the stored position
ProcessMissing_DropsPosition(hand) ==
    /\ hand.is_valid
    /\ <<>> \in {thumb_tip(hand), index_tip(hand), middle_tip(hand)}
    /\ returned' = <<>>
    /\ dispatched' = <<>>
    /\ invoked' = <<>>
    /\ raised' = FALSE
    /\ last_position' = <<>>
    /\ ehist' = [ehist EXCEPT !.lost = <<>>]
    /\ UNCHANGED <<now, left_pinch, right_pinch, is_dragging>>

\* GestureEngine.process(hand) for a valid hand with a fingertip missing
ProcessMissing(hand) ==
    /\ hand.is_valid
    /\ None \in {thumb_tip(hand), index_tip(hand), middle_tip(hand)}
    /\ returned' = <<>>
    /\ dispatched' = <<>>
    /\ invoked' = <<>>
    /\ raised' = FALSE
    /\ ehist' = [ehist EXCEPT !.lost = <<>>]
    /\ UNCHANGED <<now, left_pinch, right_pinch, last_position, is_dragging>>

\* GestureEngine.process(hand) for a valid hand with the three fingertips, dt
\* milliseconds after the previous clock reading (both detectors read the
\* clock within the same millisecond)
ProcessComplete(hand, dt, raising) ==
    /\ hand.is_valid
    /\ None \notin {thumb_tip(hand), index_tip(hand), middle_tip(hand)}
    /\ now + dt <= EngineMaxTime
    /\ now' = now + dt
    /\ LET thumb == thumb_tip(hand)[1]
           index == index_tip(hand)[1]
           middle == middle_tip(hand)[1]
           cursor_pos == <<index[1], index[2]>>
           left_distance == distance_to(thumb, index)
           right_distance == distance_to(thumb, middle)
       IN  /\ left_pinch' = PinchUpdate(PinchParams(config), left_pinch, left_distance, now')
           /\ right_pinch' = PinchUpdate(PinchParams(config), right_pinch, right_distance, now')
           /\ \E lp \in {ProcessLeftPinch(left_pinch'.state, is_dragging, cursor_pos)} :
              \E gestures \in {ProcessCursorMove(config, last_position, cursor_pos)
                               \o lp.gestures
                               \o ProcessRightPinch(right_pinch'.state, cursor_pos)} :
              \E out \in {Dispatch(callbacks, gestures, raising)} :
                  /\ is_dragging' = lp.dragging
                  /\ dispatched' = out.dispatched
                  /\ invoked' = out.invoked
                  /\ raised' = out.propagated
                  /\ returned' = IF raised' THEN <<>> ELSE gestures
           /\ last_position' =
                 IF raised' THEN last_position
                 ELSE UpdateLastPosition(last_position, cursor_pos,
                                         ProcessCursorMove(config, last_position, cursor_pos))
           /\ ehist' = EHistUpdate(ehist, left_pinch, left_pinch', dispatched')

\* GestureEngine.process(hand); raising is the set of observers that raise
\* when they are called during this call
Process(hand, dt, raising) ==
    /\ \/ dt = 0 /\ ProcessInvalid(hand, raising)
       \/ dt = 0 /\ ProcessMissing(hand)
       \/ ProcessComplete(hand, dt, raising)
    /\ eng_op' = "process"
    /\ in_hand' = hand
    /\ UNCHANGED <<config, callbacks>>

\* a reset() that ends an active drag the way _reset_on_no_hand does
Reset_EndsDrag ==
    /\ left_pinch' = PinchReset(left_pinch)
    /\ right_pinch' = PinchReset(right_pinch)
    /\ last_position' = <<>>
    /\ is_dragging' = FALSE
    /\ eng_op' = "reset"
    /\ returned' = <<>>
    /\ \E out \in {Dispatch(callbacks, ResetOnNoHandGestures, {})} :
           /\ dispatched' = out.dispatched
           /\ invoked' = out.invoked
    /\ raised' = FALSE
    /\ ehist' = EHistUpdate(ehist, left_pinch, left_pinch', dispatched')
    /\ UNCHANGED <<now, config, in_hand, callbacks>>

\* a reset() that leaves the drag flag as it was
Reset_KeepsDrag ==
    /\ left_pinch' = PinchReset(left_pinch)
    /\ right_pinch' = PinchReset(right_pinch)
    /\ last_position' = None
    /\ eng_op' = "reset"
    /\ returned' = <<>>
    /\ dispatched' = <<>>
    /\ invoked' = <<>>
    /\ raised' = FALSE
    /\ ehist' = EHistUpdate(ehist, left_pinch, left_pinch', <<>>)
    /\ UNCHANGED <<now, config, in_hand, callbacks, is_dragging>>

\* GestureEngine.reset()
Reset ==
    /\ left_pinch' = PinchReset(left_pinch)
    /\ right_pinch' = PinchReset(right_pinch)
    /\ last_position' = None
    /\ is_dragging' = FALSE
    /\ eng_op' = "reset"
    /\ returned' = <<>>
    /\ dispatched' = <<>>
    /\ invoked' = <<>>
    /\ raised' = FALSE
    /\ ehist' = EHistUpdate(ehist, left_pinch, left_pinch', <<>>)
    /\ UNCHANGED <<now, config, in_hand, callbacks>>

\* GestureEngine.off_gesture(gesture_type, callback)
OffGesture(gesture_type, callback) ==
    /\ callbacks' = off_gesture(callbacks, gesture_type, callback)
    /\ eng_op' = "off_gesture"
    /\ returned' = <<>>
    /\ dispatched' = <<>>
    /\ invoked' = <<>>
    /\ raised' = FALSE
    /\ ehist' = [ehist EXCEPT !.lost = <<>>]
    /\ UNCHANGED <<now, config, left_pinch, right_pinch, last_position, is_dragging,
                   in_hand>>

\* the engine dispatches one gesture, _trigger_callbacks(gesture), as process
\* does for every gesture it detected and _reset_on_no_hand for its DRAG_END,
\* to observers that may call on_gesture and off_gesture meanwhile
TriggerLive(gesture_type, acts) ==
    /\ \E out \in {TriggerCallbacksLive(callbacks, gesture_type, acts, 1, <<>>)} :
          /\ callbacks' = out.callbacks
          /\ invoked' = out.invoked
    /\ eng_op' = "trigger"
    /\ dispatched' = <<Gesture(gesture_type, <<50, 50>>, <<>>)>>
    /\ returned' = <<>>
    /\ raised' = FALSE
    /\ ehist' = [ehist EXCEPT !.lost = <<>>]
    /\ UNCHANGED <<now, config, left_pinch, right_pinch, last_position, is_dragging,
                   in_hand>>

\* GestureEngine.on_gesture(gesture_type, callback); each observer is
\* registered at most once for a type
OnGesture(gesture_type, callback) ==
    /\ \A i \in 1..Len(callbacks[gesture_type]) : callbacks[gesture_type][i] # callback
    /\ callbacks' = on_gesture(callbacks, gesture_type, callback)
    /\ eng_op' = "on_gesture"
    /\ returned' = <<>>
    /\ dispatched' = <<>>
    /\ invoked' = <<>>
    /\ raised' = FALSE
    /\ ehist' = [ehist EXCEPT !.lost = <<>>]
    /\ UNCHANGED <<now, config, left_pinch, right_pinch, last_position, is_dragging,
                   in_hand>>

----------------------------------------------------------------------------
(* ActionDispatcher and SpatialTouchController._process_frame *)

\* ActionDispatcher after __init__ and start(), as _initialize_components
\* leaves it: running, mouse enabled (the ActionConfig default), button up.
\* dragging is MouseDragExecutor._is_dragging.  The click-interval table and
\* the action counter are left out: no drag action reads them.
DispatcherInit == [is_running |-> TRUE, enable_mouse |-> TRUE, dragging |-> FALSE]

\* ActionDispatcher.handle_gesture(gesture); ok tells whether the pyautogui
\* call made for it succeeds (a failure is caught and logged by the executor)
handle_gesture(d, gesture, ok) ==
    IF ~d.is_running THEN d
    ELSE CASE gesture.type = DRAG_START ->
                IF ~d.enable_mouse THEN d
                ELSE IF ok THEN [d EXCEPT !.dragging = TRUE] ELSE d
           [] gesture.type = DRAG_END ->
                IF ok THEN [d EXCEPT !.dragging = FALSE] ELSE d
           [] OTHER -> d

\* the loop "for gesture in gestures: self._handle_gesture(gesture, hand)"
RECURSIVE HandleGestures(_, _, _)
HandleGestures(d, gestures, ok) ==
    IF gestures = <<>> THEN d
    ELSE HandleGestures(handle_gesture(d, Head(gestures), ok), Tail(gestures), ok)

ControllerInit ==
    /\ dispatcher = DispatcherInit
    /\ in_frame = "init"

\* MouseDragExecutor.end_drag(); ok tells whether pyautogui.mouseUp() returns:
\* an exception it raises is caught and logged and the flag is left as it was
end_drag(d, ok) == IF ok THEN [d EXCEPT !.dragging = FALSE] ELSE d

\* ActionDispatcher.start()
start(d) == IF d.is_running THEN d ELSE [d EXCEPT !.is_running = TRUE]

\* ActionDispatcher.stop(), also ActionDispatcher.__exit__; the result of
\* end_drag() is not looked at
stop(d, ok) ==
    IF ~d.is_running THEN d
    ELSE [(IF d.dragging THEN end_drag(d, ok) ELSE d) EXCEPT !.is_running = FALSE]

\* no call has been made on the dispatcher
DispatchInit ==
    /\ disp_op = "init"
    /\ disp_in = NONE
    /\ disp_ok = TRUE

\* a client calls dispatcher.start()
Start ==
    /\ dispatcher' = start(dispatcher)
    /\ disp_op' = "start"
    /\ disp_in' = NONE
    /\ disp_ok' = TRUE

\* a client calls dispatcher.stop() or leaves the with-block
Stop(ok) ==
    /\ dispatcher' = stop(dispatcher, ok)
    /\ disp_op' = "stop"
    /\ disp_in' = NONE
    /\ disp_ok' = ok

\* a client calls dispatcher.handle_gesture(gesture).  Every executor catches
\* the exceptions of its pyautogui call, FailSafeException among them, so
\* none reaches the except clauses of handle_gesture.
HandleGesture(type, ok) ==
    /\ dispatcher' = handle_gesture(dispatcher, Gesture(type, <<50, 50>>, <<>>), ok)
    /\ disp_op' = "handle_gesture"
    /\ disp_in' = type
    /\ disp_ok' = ok

\* hands HandTracker.process reports: the empty HandData(), or a valid hand
\* with all 21 landmarks
TrackedHands ==
    {h \in Hands : (~h.is_valid /\ h.count = 0) \/ (h.is_valid /\ h.count = NumLandmarks)}

\* _process_frame when the camera delivers no frame
FrameNone ==
    /\ in_frame' = "no_frame"
    /\ UNCHANGED <<now, engVars, dispatcher>>

\* _process_frame when the tracker reports no valid hand: the idle counter is
\* advanced and the method returns before the gesture engine is called
FrameNoHand(hand) ==
    /\ ~hand.is_valid
    /\ in_frame' = "no_hand"
    /\ UNCHANGED <<now, engVars, dispatcher>>

\* the outcomes the pyautogui calls made for a list of gestures can have:
\* success or failure when a mouse button is pressed or released for it
MouseOutcomes(gestures) ==
    IF \E i \in 1..Len(gestures) : gestures[i].type \in {DRAG_START, DRAG_END}
    THEN BOOLEAN ELSE {TRUE}

\* _process_frame with a valid hand: the engine processes it and every
\* returned gesture is handed to the dispatcher
FrameHand(hand, dt) ==
    /\ hand.is_valid
    /\ Process(hand, dt, {})
    /\ in_frame' = "hand"
    /\ \E ok \in MouseOutcomes(returned') :
          dispatcher' = HandleGestures(dispatcher, returned', ok)

\* SpatialTouchController._process_frame; the frame counters, which only pace
\* the main loop, are left out
ProcessFrame(hand, dt) ==
    \/ dt = 0 /\ FrameNoHand(hand)
    \/ FrameHand(hand, dt)

----------------------------------------------------------------------------
(* ZoneMapper *)

\* Normalized coordinates, sensitivity and smoothing are integers in 1/100;
\* screen coordinates are integer pixels.  The mapper computes in IEEE-754
\* doubles: the model computes the exact rational value and corrects it, at
\* the operands listed in ScaleShortfall and SmoothShortfall, by the amount
\* by which double arithmetic falls short of it before int() truncates.

\* int(): truncation towards zero of the rational n / d, d > 0
Trunc(n, d) == IF n >= 0 THEN n \div d ELSE 0 - ((0 - n) \div d)

Max(a, b) == IF a > b THEN a ELSE b

\* normalized coordinates offered to map_position: 0.0, 0.3, 0.8, 1.0
NormalizedCoords == {0, 30, 80, 100}

\* ZoneConfig values explored: a 40 x 30 screen, margin 0 or the default 10,
\* sensitivity 0.5, 1.0, 2.0, smoothing 0.0, 0.06, 0.5, 1.0
ZoneConfigSet ==
    [screen_width : {40}, screen_height : {30}, sensitivity : {50, 100, 200},
     invert_x : BOOLEAN, invert_y : BOOLEAN, margin : {0, 10},
     smoothing : {0, 6, 50, 100}, zone_columns : {3}, zone_rows : {3}]

\* ZoneConfig(): invert_x, sensitivity 1.0, margin 10, no smoothing
DefaultZoneConfig ==
    [screen_width |-> 40, screen_height |-> 30, sensitivity |-> 100,
     invert_x |-> TRUE, invert_y |-> FALSE, margin |-> 10, smoothing |-> 0,
     zone_columns |-> 3, zone_rows |-> 3]

\* <<x, invert, sensitivity, dimension>> at which the double value of
\* "x * dimension", after inversion, scaling and clamping of x, lies just
\* below the integer it equals exactly, so that int() returns one less
\* (for instance 1.0 - 0.8 = 0.19999999999999996, times 40 = 7.999999999999998)
ScaleShortfall ==
    {<<30, FALSE, 200, 40>>, <<80, TRUE, 100, 40>>,
     <<30, FALSE, 200, 30>>, <<30, TRUE, 200, 30>>, <<80, TRUE, 100, 30>>}

\* <<smoothing, target, last>> with target and last in 0..40 at which the
\* double value of "alpha * target + smoothing * last" lies just below the
\* integer it equals exactly (for instance 0.94 * 10 + 0.06 * 10 =
\* 9.999999999999998); 0.5 and 1.0 are exact
SmoothShortfall ==
    {<<6, t, t>> : t \in {5, 10, 13, 20, 23, 26, 29, 31, 40}}

\* lines 143-168 of map_position for one axis: inversion, sensitivity, clamp
\* to [0, 1], scaling to pixels, margin
MapAxis(x, invert, sensitivity, dimension, margin) ==
    LET x1 == IF invert THEN 100 - x ELSE x
        \* in 1/10000
        x2 == IF sensitivity # 100 THEN 5000 + (x1 - 50) * sensitivity ELSE x1 * 100
        x3 == Max(0, Min(10000, x2))
        screen == Trunc(x3 * dimension, 10000)
                  - (IF <<x, invert, sensitivity, dimension>> \in ScaleShortfall
                     THEN 1 ELSE 0)
    IN  Max(margin, Min(dimension - margin, screen))

\* a blend that weights the new point by smoothing
SmoothAxis_WeightsNew(smoothing, target, last) ==
    Trunc(smoothing * target + (100 - smoothing) * last, 100)

\* lines 172-174 of map_position for one axis:
\* int(alpha * screen + smoothing * last) with alpha = 1.0 - smoothing
SmoothAxis(smoothing, target, last) ==
    Trunc((100 - smoothing) * target + smoothing * last, 100)
    - (IF <<smoothing, target, last>> \in SmoothShortfall THEN 1 ELSE 0)

\* a mapper that blends every point but the first half and half with the
\* previous one, whatever the configured smoothing
map_position_FixedBlend(c, last, pos) ==
    LET screen_x == MapAxis(pos[1], c.invert_x, c.sensitivity, c.screen_width, c.margin)
        screen_y == MapAxis(pos[2], c.invert_y, c.sensitivity, c.screen_height, c.margin)
    IN  IF last # None
        THEN <<SmoothAxis(50, screen_x, last[1][1]),
               SmoothAxis(50, screen_y, last[1][2])>>
        ELSE <<screen_x, screen_y>>

\* ZoneMapper.map_position(normalized_pos): the ScreenPoint it returns and
\* stores, for a mapper whose _last_position is last
map_position(c, last, pos) ==
    LET screen_x == MapAxis(pos[1], c.invert_x, c.sensitivity, c.screen_width, c.margin)
        screen_y == MapAxis(pos[2], c.invert_y, c.sensitivity, c.screen_height, c.margin)
    IN  IF c.smoothing > 0 /\ last # None
        THEN <<SmoothAxis(c.smoothing, screen_x, last[1][1]),
               SmoothAxis(c.smoothing, screen_y, last[1][2])>>
        ELSE <<screen_x, screen_y>>

\* ZoneMapper.__init__
ZoneInit ==
    /\ zone_last = None
    /\ zone_op = "init"
    /\ zone_in = <<0, 0>>
    /\ zone_out = <<0, 0>>
    /\ zone_repeat = FALSE
    /\ zone_zone = ""
    /\ zone_edges = [left |-> FALSE, right |-> FALSE, top |-> FALSE, bottom |-> FALSE]
    /\ zone_resized = FALSE

\* mapper.map_position(pos)
MapPosition(pos) ==
    /\ zone_out' = map_position(zone_config, zone_last, pos)
    /\ zone_last' = Some(zone_out')
    /\ zone_op' = "map_position"
    /\ zone_in' = pos
    /\ zone_repeat' = (zone_op = "map_position" /\ zone_in = pos)
    /\ UNCHANGED <<zone_resized, zone_config, zone_zone, zone_edges>>

\* ZoneMapper.reset()
ZoneReset ==
    /\ zone_last' = None
    /\ zone_op' = "reset"
    /\ zone_repeat' = FALSE
    /\ UNCHANGED <<zone_resized, zone_config, zone_in, zone_out, zone_zone, zone_edges>>

\* ZoneMapper.update_screen_size(width, height): the configuration it leaves
update_screen_size(c, width, height) ==
    [c EXCEPT !.screen_width = width, !.screen_height = height]

\* mapper.update_screen_size(width, height); _last_position is not touched
UpdateScreenSize(width, height) ==
    /\ zone_config' = update_screen_size(zone_config, width, height)
    /\ zone_op' = "update_screen_size"
    /\ zone_repeat' = FALSE
    /\ zone_resized' = TRUE
    /\ UNCHANGED <<zone_last, zone_in, zone_out, zone_zone, zone_edges>>

\* zone_map of get_zone: the nine members of ScreenZone
zone_map ==
    <<"TOP_LEFT", "TOP_CENTER", "TOP_RIGHT",
      "MIDDLE_LEFT", "MIDDLE_CENTER", "MIDDLE_RIGHT",
      "BOTTOM_LEFT", "BOTTOM_CENTER", "BOTTOM_RIGHT">>

\* normalized coordinates offered to get_zone and get_edge_proximity:
\* 0.05, 0.3, 0.5, 0.7, 0.95.  At these coordinates, and grids of 2 to 4
\* rows and columns, the doubles 1.0 - x, x * zone_columns and y * zone_rows
\* truncate and compare as their exact values do.
GridCoords == {5, 30, 50, 70, 95}

\* ZoneConfig values explored for the classification: sensitivity 1.0,
\* margin 0, no smoothing, grids of 2 to 4 rows and columns
GridConfigSet ==
    [screen_width : {40}, screen_height : {30}, sensitivity : {100},
     invert_x : BOOLEAN, invert_y : BOOLEAN, margin : {0}, smoothing : {0},
     zone_columns : {2, 3, 4}, zone_rows : {2, 3, 4}]

\* threshold default of get_edge_proximity, 0.1
EdgeThreshold == 10

\* ZoneMapper.get_zone(normalized_pos); zone_map is indexed from 0 in the
\* source and from 1 here
get_zone(c, pos) ==
    LET x == IF c.invert_x THEN 100 - pos[1] ELSE pos[1]
        y == pos[2]
        col == Min(Trunc(x * c.zone_columns, 100), c.zone_columns - 1)
        row == Min(Trunc(y * c.zone_rows, 100), c.zone_rows - 1)
        zone_index == row * c.zone_columns + col
    IN  IF zone_index < Len(zone_map) THEN zone_map[zone_index + 1] ELSE "MIDDLE_CENTER"

\* ZoneMapper.get_edge_proximity(normalized_pos, threshold)
get_edge_proximity(c, pos, threshold) ==
    LET x == IF c.invert_x THEN 100 - pos[1] ELSE pos[1]
        y == pos[2]
    IN  [left |-> x < threshold, right |-> x > 100 - threshold,
         top |-> y < threshold, bottom |-> y > 100 - threshold]

\* mapper.get_zone(pos)
GetZone(pos) ==
    /\ zone_zone' = get_zone(zone_config, pos)
    /\ zone_op' = "get_zone"
    /\ zone_in' = pos
    /\ zone_repeat' = FALSE
    /\ UNCHANGED <<zone_resized, zone_config, zone_last, zone_out, zone_edges>>

\* mapper.get_edge_proximity(pos)
GetEdgeProximity(pos) ==
    /\ zone_edges' = get_edge_proximity(zone_config, pos, EdgeThreshold)
    /\ zone_op' = "get_edge_proximity"
    /\ zone_in' = pos
    /\ zone_repeat' = FALSE
    /\ UNCHANGED <<zone_resized, zone_config, zone_last, zone_out, zone_zone>>

----------------------------------------------------------------------------
(* The controller's handling of the gestures of one frame *)

\* "for gesture in gestures: self._handle_gesture(gesture, hand)", the part
\* played by the ZoneMapper: every gesture has a position, so map_position is
\* called once for each and its result stored as the gesture's screen_pos.
\* done holds the mapper's _last_position and the screen_pos given so far.
RECURSIVE MapGestures(_, _, _)
MapGestures(c, gestures, done) ==
    IF gestures = <<>> THEN done
    ELSE LET screen_pos == map_position(c, done.last, Head(gestures).position)
         IN  MapGestures(c, Tail(gestures),
                         [last |-> Some(screen_pos),
                          positions |-> Append(done.positions, screen_pos)])

\* no frame has been handled
FrameInit == frame_pos = <<>>

\* _process_frame when the camera delivers no frame: no gesture is handled
FrameAbsent ==
    /\ FrameNone
    /\ frame_pos' = <<>>
    /\ UNCHANGED zoneVars

\* _process_frame for a frame that holds no valid hand: no gesture is handled
FrameSkipped(hand) ==
    /\ FrameNoHand(hand)
    /\ frame_pos' = <<>>
    /\ UNCHANGED zoneVars

\* _process_frame with a valid hand, mapper included
FrameMapped(hand, dt) ==
    /\ FrameHand(hand, dt)
    /\ \E out \in {MapGestures(zone_config, returned',
                               [last |-> zone_last, positions |-> <<>>])} :
          /\ frame_pos' = out.positions
          /\ zone_last' = out.last
          /\ IF returned' = <<>>
             THEN UNCHANGED <<zone_op, zone_in, zone_out, zone_repeat>>
             ELSE /\ zone_op' = "map_position"
                  /\ zone_in' = returned'[1].position
                  /\ zone_out' = out.last[1]
                  /\ zone_repeat' = (Len(returned') > 1
                                     \/ (zone_op = "map_position" /\ zone_in = zone_in'))
    /\ UNCHANGED <<zone_resized, zone_config, zone_zone, zone_edges>>

----------------------------------------------------------------------------
(* Smoothers *)

\* Values are integers in 1/Unit and smoothing factors integers in 1/1000.
\* With the factors 0.0, 0.5 and 1.0 and inputs that are whole numbers, the
\* doubles computed by ExponentialMovingAverage and DoubleExponentialSmoothing
\* over MaxCalls calls are multiples of 1/Unit and are computed exactly.
Unit == 256

\* number of calls explored on one smoother
MaxCalls == 4

\* smoothing factors offered to the constructors and to set_alpha:
\* -0.5, 0.0, 0.5, 1.0, 1.5
AlphaSet == {0 - 500, 0, 500, 1000, 1500}

\* inputs offered to update: 0.0, 1.0, 2.0
Inputs == {0, Unit, 2 * Unit}

\* "0.0 <= alpha <= 1.0"
ValidAlpha(alpha) == 0 <= alpha /\ alpha <= 1000

\* ExponentialMovingAverage.__init__, past the validation
ExponentialMovingAverage(alpha) ==
    [kind |-> "ema", alpha |-> alpha, value |-> None, initialized |-> FALSE]

\* an update that weights the previous value by alpha
ema_update_WeightsPrevious(f, new_value) ==
    IF ~f.initialized
    THEN [f EXCEPT !.value = Some(new_value), !.initialized = TRUE]
    ELSE [f EXCEPT !.value =
            Some(Trunc((1000 - f.alpha) * new_value + f.alpha * f.value[1], 1000))]

\* ExponentialMovingAverage.update: the filter after the call; the value
\* returned is its value
ema_update(f, new_value) ==
    IF ~f.initialized
    THEN [f EXCEPT !.value = Some(new_value), !.initialized = TRUE]
    ELSE [f EXCEPT !.value =
            Some(Trunc(f.alpha * new_value + (1000 - f.alpha) * f.value[1], 1000))]

\* ExponentialMovingAverage.reset
ema_reset(f) == [f EXCEPT !.value = None, !.initialized = FALSE]

\* MovingAverage computes its running sum in doubles.  A double of the
\* model is [hi, lo], the number hi * 2^53 + lo / Unit with lo small: the
\* inputs offered are 0.0, 1.0 and 2^53, the least double whose successor is
\* 2 away.  Round gives the double nearest to hi * 2^53 + lo / Unit, ties to
\* the even significand, as the addition and the subtraction of doubles do.
Double(hi, lo) == [hi |-> hi, lo |-> lo]

Zero == Double(0, 0)

\* distance, in 1/Unit, between the doubles around hi * 2^53 + lo / Unit
Spacing(hi, lo) ==
    IF hi = 0 THEN 1
    ELSE IF hi = 1 THEN (IF lo >= 0 THEN 2 * Unit ELSE Unit)
    ELSE (IF lo >= 0 THEN 4 * Unit ELSE 2 * Unit)

\* the multiple of q nearest to n, a tie going to the multiple of 2 * q
RoundTo(n, q) ==
    LET r == n % q
        down == n - r
    IN  IF 2 * r < q THEN down
        ELSE IF 2 * r > q THEN down + q
        ELSE IF down % (2 * q) = 0 THEN down ELSE down + q

Round(hi, lo) == Double(hi, RoundTo(lo, Spacing(hi, lo)))

\* a + b and a - b in doubles
DAdd(a, b) == Round(a.hi + b.hi, a.lo + b.lo)
DSub(a, b) == Round(a.hi - b.hi, a.lo - b.lo)

\* a / n for n = 1 or 2, which is exact in doubles: the quotient is
\* (hi * 2^53 + lo / Unit) / den
DDiv(a, n) == [hi |-> a.hi, lo |-> a.lo, den |-> n]

\* inputs offered to MovingAverage.update: 0.0, 1.0, 2^53
DoubleInputs == {Zero, Double(0, Unit), Double(1, 0)}

\* the double of a value in 1/Unit
ToDouble(v) == Double(0, v)

\* window sizes offered to MovingAverage(): -1, 0, 1, 2
WindowSizes == {0 - 1, 0, 1, 2}

\* MovingAverage.__init__, past the validation; _values is a
\* deque(maxlen=window_size)
MovingAverage(window_size) ==
    [kind |-> "ma", window_size |-> window_size, values |-> <<>>, sum |-> Zero]

\* deque.append on a deque with maxlen: the oldest value leaves a full deque
DequeAppend(values, maxlen, v) ==
    IF Len(values) = maxlen THEN Append(Tail(values), v) ELSE Append(values, v)

\* MovingAverage.update: the smoother after the call
ma_update(m, new_value) ==
    LET sum1 == IF Len(m.values) = m.window_size
                THEN DSub(m.sum, m.values[1]) ELSE m.sum
    IN  [m EXCEPT !.values = DequeAppend(m.values, m.window_size, new_value),
                  !.sum = DAdd(sum1, new_value)]

\* the value MovingAverage.update returns, self._sum / len(self._values)
ma_value(m) == DDiv(m.sum, Len(m.values))

\* a reset that empties the window and keeps the running sum
ma_reset_KeepsSum(m) == [m EXCEPT !.values = <<>>]

\* MovingAverage.reset
ma_reset(m) == [m EXCEPT !.values = <<>>, !.sum = Zero]

\* DoubleExponentialSmoothing.__init__: alpha and beta are stored as given
DoubleExponentialSmoothing(alpha, beta) ==
    [kind |-> "des", alpha |-> alpha, beta |-> beta,
     level |-> None, trend |-> None, initialized |-> FALSE]

\* DoubleExponentialSmoothing.update: the smoother after the call
des_update(d, new_value) ==
    IF ~d.initialized
    THEN [d EXCEPT !.level = Some(new_value), !.trend = Some(0), !.initialized = TRUE]
    ELSE LET prev_level == d.level[1]
             level == Trunc(d.alpha * new_value
                            + (1000 - d.alpha) * (d.level[1] + d.trend[1]), 1000)
             trend == Trunc(d.beta * (level - prev_level)
                            + (1000 - d.beta) * d.trend[1], 1000)
         IN  [d EXCEPT !.level = Some(level), !.trend = Some(trend)]

\* the value DoubleExponentialSmoothing.update returns
des_value(d) == d.level[1] + d.trend[1]

\* DoubleExponentialSmoothing.reset
des_reset(d) == [d EXCEPT !.level = None, !.trend = None, !.initialized = FALSE]

\* OneEuroFilter defaults in 1/1000: min_cutoff 1.0, beta 0.007, d_cutoff 1.0
MinCutoff == 1000
Beta == 7
DCutoff == 1000

\* 2.0 * math.pi in 1/1000
TwoPi == 6283

\* timestamps, in seconds, offered to OneEuroFilter.update
Timestamps == {0, 1, 2}

\* OneEuroFilter.__init__
OneEuroFilter(min_cutoff, beta, d_cutoff) ==
    [kind |-> "one_euro", min_cutoff |-> min_cutoff, beta |-> beta,
     d_cutoff |-> d_cutoff, x_filter |-> None, dx_filter |-> None,
     last_value |-> None, last_time |-> None]

\* OneEuroFilter._alpha(cutoff, dt) = 1 / (1 + tau / dt) with
\* tau = 1 / (2 pi cutoff), that is x / (1 + x) for x = 2 pi cutoff dt;
\* cutoff and the result in 1/1000, rounded towards zero
one_euro_alpha(cutoff, dt) ==
    LET x == Trunc(TwoPi * cutoff * dt, 1000)
    IN  Trunc(1000 * x, 1000 + x)

\* ExponentialMovingAverage.set_alpha, past the validation
ema_set_alpha(f, alpha) == [f EXCEPT !.alpha = alpha]

\* a filter that moves its clock to the timestamp of a sample it does not
\* accept
one_euro_stale_MovesClock(o, timestamp) ==
    [filter |-> [o EXCEPT !.last_time = Some(timestamp)], out |-> o.last_value[1]]

\* lines 285-286 of OneEuroFilter.update: a sample whose timestamp is not
\* later than the last one accepted
one_euro_stale(o, timestamp) ==
    [filter |-> o, out |-> o.last_value[1]]

\* OneEuroFilter.update(value, timestamp): the filter after the call and the
\* value returned.  The derivative, the cutoff and the two factors are
\* rounded towards zero to 1/Unit and 1/1000.
one_euro_update(o, value, timestamp) ==
    IF o.last_time = None
    THEN [filter |-> [o EXCEPT !.last_value = Some(value),
                               !.last_time = Some(timestamp),
                               !.x_filter = Some(ExponentialMovingAverage(500)),
                               !.dx_filter = Some(ExponentialMovingAverage(500))],
          out |-> value]
    ELSE LET dt == timestamp - o.last_time[1]
         IN  IF dt <= 0
             THEN one_euro_stale(o, timestamp)
             ELSE LET dx == Trunc(value - o.last_value[1], dt)
                      d_alpha == one_euro_alpha(o.d_cutoff, dt)
                      dx_filter == ema_update(ema_set_alpha(o.dx_filter[1], d_alpha), dx)
                      dx_hat == dx_filter.value[1]
                      cutoff == o.min_cutoff + Trunc(o.beta * Abs(dx_hat), Unit)
                      x_alpha == one_euro_alpha(cutoff, dt)
                      x_filter == ema_update(ema_set_alpha(o.x_filter[1], x_alpha), value)
                      x_hat == x_filter.value[1]
                  IN  [filter |-> [o EXCEPT !.last_value = Some(x_hat),
                                            !.last_time = Some(timestamp),
                                            !.x_filter = Some(x_filter),
                                            !.dx_filter = Some(dx_filter)],
                       out |-> x_hat]

\* OneEuroFilter.reset
one_euro_reset(o) ==
    [o EXCEPT !.x_filter = None, !.dx_filter = None,
              !.last_value = None, !.last_time = None]

\* smoother_type values offered to Point2DSmoother()
SmootherTypes == {"ema", "moving_average"}

\* the smoother of one coordinate: its update, the value the update
\* returns, and its reset
axis_update(f, v) ==
    IF f.kind = "ema" THEN ema_update(f, v) ELSE ma_update(f, ToDouble(v))

axis_value(f) == IF f.kind = "ema" THEN f.value[1] ELSE ma_value(f)

axis_reset(f) == IF f.kind = "ema" THEN ema_reset(f) ELSE ma_reset(f)

\* Point2DSmoother.__init__, past the construction of the two smoothers
Point2DSmoother(x_smoother, y_smoother) ==
    [kind |-> "point2d", x_smoother |-> x_smoother, y_smoother |-> y_smoother]

\* Point3DSmoother.__init__, past the construction of the three smoothers
Point3DSmoother(x_smoother, y_smoother, z_smoother) ==
    [kind |-> "point3d", x_smoother |-> x_smoother, y_smoother |-> y_smoother,
     z_smoother |-> z_smoother]

\* points offered to Point2DSmoother.update and Point3DSmoother.update
Points2D == {<<0, 2 * Unit>>, <<Unit, 0>>, <<2 * Unit, 2 * Unit>>}
Points3D == {<<0, Unit, 2 * Unit>>, <<2 * Unit, 0, Unit>>}

\* no smoother has been constructed
SmootherInit ==
    /\ sm = None
    /\ sm_op = "none"
    /\ sm_in = <<>>
    /\ sm_out = <<>>
    /\ sm_raised = ""
    /\ sm_calls = 0
    /\ sm_prev = "none"
    /\ sm_updates = 0

\* a constructor call: it returns the smoother or is left by the exception
Constructed(args, smoother) ==
    /\ sm = None
    /\ sm' = Some(smoother)
    /\ sm_op' = "new"
    /\ sm_in' = args
    /\ sm_out' = <<>>
    /\ sm_raised' = ""
    /\ sm_calls' = 0
    /\ sm_prev' = sm_op
    /\ sm_updates' = 0

ConstructorRaised(args, exception) ==
    /\ sm = None
    /\ sm' = None
    /\ sm_op' = "new"
    /\ sm_in' = args
    /\ sm_out' = <<>>
    /\ sm_raised' = exception
    /\ sm_calls' = 0
    /\ sm_prev' = sm_op
    /\ sm_updates' = 0

\* ExponentialMovingAverage(alpha)
NewEMA(alpha) ==
    IF ~ValidAlpha(alpha)
    THEN ConstructorRaised(<<"ema", alpha>>, "ValueError")
    ELSE Constructed(<<"ema", alpha>>, ExponentialMovingAverage(alpha))

\* MovingAverage(window_size)
NewMA(window_size) ==
    IF window_size < 1
    THEN ConstructorRaised(<<"ma", window_size>>, "ValueError")
    ELSE Constructed(<<"ma", window_size>>, MovingAverage(window_size))

\* DoubleExponentialSmoothing(alpha, beta)
NewDES(alpha, beta) ==
    Constructed(<<"des", alpha, beta>>, DoubleExponentialSmoothing(alpha, beta))

\* OneEuroFilter()
NewOneEuro ==
    Constructed(<<"one_euro">>, OneEuroFilter(MinCutoff, Beta, DCutoff))

\* Point2DSmoother(alpha, smoother_type): two ExponentialMovingAverage(alpha)
\* or two MovingAverage(int(1 / alpha))
NewPoint2D(alpha, smoother_type) ==
    LET args == <<"point2d", alpha, smoother_type>>
    IN  IF smoother_type = "ema"
        THEN IF ~ValidAlpha(alpha)
             THEN ConstructorRaised(args, "ValueError")
             ELSE Constructed(args, Point2DSmoother(ExponentialMovingAverage(alpha),
                                                    ExponentialMovingAverage(alpha)))
        ELSE IF alpha = 0
             THEN ConstructorRaised(args, "ZeroDivisionError")
             ELSE IF Trunc(1000, alpha) < 1
                  THEN ConstructorRaised(args, "ValueError")
                  ELSE Constructed(args, Point2DSmoother(MovingAverage(Trunc(1000, alpha)),
                                                         MovingAverage(Trunc(1000, alpha))))

\* Point3DSmoother(alpha)
NewPoint3D(alpha) ==
    IF ~ValidAlpha(alpha)
    THEN ConstructorRaised(<<"point3d", alpha>>, "ValueError")
    ELSE Constructed(<<"point3d", alpha>>,
                     Point3DSmoother(ExponentialMovingAverage(alpha),
                                     ExponentialMovingAverage(alpha),
                                     ExponentialMovingAverage(alpha)))

\* a call of update on the smoother held: it leaves the smoother as after
\* and returns out
Updated(kind, args, after, out) ==
    /\ sm # None /\ sm[1].kind = kind
    /\ sm_calls < MaxCalls
    /\ sm' = Some(after)
    /\ sm_op' = "update"
    /\ sm_in' = args
    /\ sm_out' = out
    /\ sm_raised' = ""
    /\ sm_calls' = sm_calls + 1
    /\ sm_prev' = sm_op
    /\ sm_updates' = sm_updates + 1

\* ema.update(new_value)
UpdateEMA(new_value) ==
    /\ sm # None /\ sm[1].kind = "ema"
    /\ \E after \in {ema_update(sm[1], new_value)} :
          Updated("ema", <<new_value>>, after, <<after.value[1]>>)

\* ma.update(new_value)
UpdateMA(new_value) ==
    /\ sm # None /\ sm[1].kind = "ma"
    /\ \E after \in {ma_update(sm[1], new_value)} :
          Updated("ma", <<new_value>>, after, <<ma_value(after)>>)

\* des.update(new_value)
UpdateDES(new_value) ==
    /\ sm # None /\ sm[1].kind = "des"
    /\ \E after \in {des_update(sm[1], new_value)} :
          Updated("des", <<new_value>>, after, <<des_value(after)>>)

\* one_euro.update(value, timestamp)
UpdateOneEuro(value, timestamp) ==
    /\ sm # None /\ sm[1].kind = "one_euro"
    /\ \E r \in {one_euro_update(sm[1], value, timestamp)} :
          Updated("one_euro", <<value, timestamp>>, r.filter, <<r.out>>)

\* point2d.update(x, y)
UpdatePoint2D(x, y) ==
    /\ sm # None /\ sm[1].kind = "point2d"
    /\ \E xs \in {axis_update(sm[1].x_smoother, x)} :
       \E ys \in {axis_update(sm[1].y_smoother, y)} :
          Updated("point2d", <<x, y>>,
                  [sm[1] EXCEPT !.x_smoother = xs, !.y_smoother = ys],
                  <<axis_value(xs), axis_value(ys)>>)

\* point3d.update(x, y, z)
UpdatePoint3D(x, y, z) ==
    /\ sm # None /\ sm[1].kind = "point3d"
    /\ \E xs \in {axis_update(sm[1].x_smoother, x)} :
       \E ys \in {axis_update(sm[1].y_smoother, y)} :
       \E zs \in {axis_update(sm[1].z_smoother, z)} :
          Updated("point3d", <<x, y, z>>,
                  [sm[1] EXCEPT !.x_smoother = xs, !.y_smoother = ys, !.z_smoother = zs],
                  <<axis_value(xs), axis_value(ys), axis_value(zs)>>)

\* reset() of each smoother
smoother_reset(m) ==
    CASE m.kind = "ema" -> ema_reset(m)
      [] m.kind = "ma" -> ma_reset(m)
      [] m.kind = "des" -> des_reset(m)
      [] m.kind = "one_euro" -> one_euro_reset(m)
      [] m.kind = "point2d" ->
            [m EXCEPT !.x_smoother = axis_reset(m.x_smoother),
                      !.y_smoother = axis_reset(m.y_smoother)]
      [] m.kind = "point3d" ->
            [m EXCEPT !.x_smoother = axis_reset(m.x_smoother),
                      !.y_smoother = axis_reset(m.y_smoother),
                      !.z_smoother = axis_reset(m.z_smoother)]

\* smoother.reset()
ResetSmoother ==
    /\ sm # None
    /\ sm_calls < MaxCalls
    /\ sm' = Some(smoother_reset(sm[1]))
    /\ sm_op' = "reset"
    /\ sm_in' = <<>>
    /\ sm_out' = <<>>
    /\ sm_raised' = ""
    /\ sm_calls' = sm_calls + 1
    /\ sm_prev' = sm_op
    /\ UNCHANGED sm_updates

\* ema.set_alpha(alpha)
SetAlpha(alpha) ==
    /\ sm # None /\ sm[1].kind = "ema"
    /\ sm_calls < MaxCalls
    /\ IF ~ValidAlpha(alpha)
       THEN sm' = sm /\ sm_raised' = "ValueError"
       ELSE sm' = Some(ema_set_alpha(sm[1], alpha)) /\ sm_raised' = ""
    /\ sm_op' = "set_alpha"
    /\ sm_in' = <<alpha>>
    /\ sm_out' = <<>>
    /\ sm_calls' = sm_calls + 1
    /\ sm_prev' = sm_op
    /\ UNCHANGED sm_updates

----------------------------------------------------------------------------
(* Specifications *)

\* a PinchDetector alone, called by a client
InitPinch ==
    /\ cfg \in ConfigSet
    /\ now = Epoch
    /\ DetInit
    /\ config = DefaultConfig
    /\ EngineInit
    /\ ControllerInit
    /\ zone_config = DefaultZoneConfig
    /\ ZoneInit
    /\ SmootherInit
    /\ HandInit
    /\ DispatchInit
    /\ FrameInit

NextPinch ==
    \/ \E distance \in Distances, dt \in 0..MaxDt :
          DetUpdate(distance, dt) /\ UNCHANGED <<engVars, ctlVars, zoneVars, smVars, hdVars, dispVars, frameVars>>
    \/ DetReset /\ UNCHANGED <<engVars, ctlVars, zoneVars, smVars, hdVars, dispVars, frameVars>>

SpecPinch == InitPinch /\ [][NextPinch]_vars

\* a GestureEngine alone, called by a client
InitEngine ==
    /\ config \in GestureConfigSet
    /\ now = Epoch
    /\ EngineInit
    /\ cfg = PinchParams(config)
    /\ DetInit
    /\ ControllerInit
    /\ zone_config = DefaultZoneConfig
    /\ ZoneInit
    /\ SmootherInit
    /\ HandInit
    /\ DispatchInit
    /\ FrameInit

NextEngine ==
    \/ \E hand \in Hands, dt \in EngineSteps :
          Process(hand, dt, {}) /\ UNCHANGED <<detVars, ctlVars, zoneVars, smVars, hdVars, dispVars, frameVars>>
    \/ Reset /\ UNCHANGED <<detVars, ctlVars, zoneVars, smVars, hdVars, dispVars, frameVars>>

SpecEngine == InitEngine /\ [][NextEngine]_vars

\* a GestureEngine on which only process is called
NextProcess ==
    \E hand \in Hands, dt \in EngineSteps :
       Process(hand, dt, {}) /\ UNCHANGED <<detVars, ctlVars, zoneVars, smVars, hdVars, dispVars, frameVars>>

SpecProcess == InitEngine /\ [][NextProcess]_vars

\* the running controller: camera, tracker, engine and dispatcher, one frame
\* per step
NextController ==
    \/ FrameNone /\ UNCHANGED <<detVars, zoneVars, smVars, hdVars, dispVars, frameVars>>
    \/ \E hand \in TrackedHands, dt \in EngineSteps :
          ProcessFrame(hand, dt) /\ UNCHANGED <<detVars, zoneVars, smVars, hdVars, dispVars, frameVars>>

SpecController == InitEngine /\ [][NextController]_vars

\* a GestureEngine fed hands whose index tip moves by the velocity threshold,
\* by less and by more on each axis: index tips (52,50), (53,50), (53,51),
\* (52,53) and (60,50)
CursorHands ==
    {[PinchingHand EXCEPT !.index = i] :
        i \in {<<52, 50, 0>>, <<53, 50, 0>>, <<53, 51, 0>>, <<52, 53, 0>>, <<60, 50, 0>>}}
    \cup {[PinchingHand EXCEPT !.is_valid = FALSE, !.count = 0]}

NextCursor ==
    \/ \E hand \in CursorHands, dt \in EngineSteps :
          Process(hand, dt, {}) /\ UNCHANGED <<detVars, ctlVars, zoneVars, smVars, hdVars, dispVars, frameVars>>
    \/ Reset /\ UNCHANGED <<detVars, ctlVars, zoneVars, smVars, hdVars, dispVars, frameVars>>

SpecCursor == InitEngine /\ [][NextCursor]_vars

\* valid hands whose landmarks list is too short: empty, cut off after the
\* thumb tip, cut off after the index tip
MissingHands ==
    {[PinchingHand EXCEPT !.count = n] : n \in {0, THUMB_TIP + 1, INDEX_TIP + 1}}

\* a GestureEngine whose hold time and click-release time stand in the ratio
\* of the GestureConfig defaults (300 ms and 200 ms): 3 and 2
ClickConfig ==
    [pinch_threshold |-> Threshold, debounce_ms |-> 0, hold_time_ms |-> 3,
     click_release_ms |-> ClickReleaseMs, velocity_threshold |-> VelocityThreshold]

InitClick ==
    /\ config = ClickConfig
    /\ now = Epoch
    /\ EngineInit
    /\ cfg = PinchParams(config)
    /\ DetInit
    /\ ControllerInit
    /\ zone_config = DefaultZoneConfig
    /\ ZoneInit
    /\ SmootherInit
    /\ HandInit
    /\ DispatchInit
    /\ FrameInit

SpecClick == InitClick /\ [][NextCursor]_vars

\* a ZoneMapper alone, called by a client
InitZone ==
    /\ zone_config \in ZoneConfigSet
    /\ ZoneInit
    /\ SmootherInit
    /\ HandInit
    /\ DispatchInit
    /\ FrameInit
    /\ now = Epoch
    /\ config = DefaultConfig
    /\ EngineInit
    /\ cfg = PinchParams(config)
    /\ DetInit
    /\ ControllerInit

NextZone ==
    \/ \E x \in NormalizedCoords, y \in NormalizedCoords :
          MapPosition(<<x, y>>) /\ UNCHANGED <<now, detVars, engVars, ctlVars, smVars, hdVars, dispVars, frameVars>>
    \/ ZoneReset /\ UNCHANGED <<now, detVars, engVars, ctlVars, smVars, hdVars, dispVars, frameVars>>

SpecZone == InitZone /\ [][NextZone]_vars

\* a ZoneMapper whose client asks for the zone and the edge flags of positions
InitGrid ==
    /\ zone_config \in GridConfigSet
    /\ ZoneInit
    /\ SmootherInit
    /\ HandInit
    /\ DispatchInit
    /\ FrameInit
    /\ now = Epoch
    /\ config = DefaultConfig
    /\ EngineInit
    /\ cfg = PinchParams(config)
    /\ DetInit
    /\ ControllerInit

NextGrid ==
    \/ \E x \in GridCoords, y \in GridCoords :
          GetZone(<<x, y>>) /\ UNCHANGED <<now, detVars, engVars, ctlVars, smVars, hdVars, dispVars, frameVars>>
    \/ \E x \in GridCoords, y \in GridCoords :
          GetEdgeProximity(<<x, y>>) /\ UNCHANGED <<now, detVars, engVars, ctlVars, smVars, hdVars, dispVars, frameVars>>

SpecGrid == InitGrid /\ [][NextGrid]_vars

\* a ZoneMapper whose screen changes between 40 x 30 and 30 x 20 pixels
ScreenSizes == {<<40, 30>>, <<30, 20>>}

ResizeConfigSet ==
    [screen_width : {40}, screen_height : {30}, sensitivity : {100},
     invert_x : {TRUE}, invert_y : {FALSE}, margin : {0, 10},
     smoothing : {0, 50}, zone_columns : {3}, zone_rows : {3}]

InitResize ==
    /\ zone_config \in ResizeConfigSet
    /\ ZoneInit
    /\ SmootherInit
    /\ HandInit
    /\ DispatchInit
    /\ FrameInit
    /\ now = Epoch
    /\ config = DefaultConfig
    /\ EngineInit
    /\ cfg = PinchParams(config)
    /\ DetInit
    /\ ControllerInit

resizeFrame == <<now, detVars, engVars, ctlVars, smVars, hdVars, dispVars, frameVars>>

NextResize ==
    \/ \E x \in NormalizedCoords, y \in NormalizedCoords :
          MapPosition(<<x, y>>) /\ UNCHANGED resizeFrame
    \/ \E size \in ScreenSizes :
          UpdateScreenSize(size[1], size[2]) /\ UNCHANGED resizeFrame
    \/ ZoneReset /\ UNCHANGED resizeFrame

SpecResize == InitResize /\ [][NextResize]_vars

\* the running controller with its ZoneMapper, smoothing off or 0.5
FrameZoneConfigSet == {[DefaultZoneConfig EXCEPT !.smoothing = s] : s \in {0, 50}}

InitFrames ==
    /\ config = ClickConfig
    /\ now = Epoch
    /\ EngineInit
    /\ cfg = PinchParams(config)
    /\ DetInit
    /\ ControllerInit
    /\ zone_config \in FrameZoneConfigSet
    /\ ZoneInit
    /\ SmootherInit
    /\ HandInit
    /\ DispatchInit
    /\ FrameInit

NextFrames ==
    \/ FrameAbsent /\ UNCHANGED <<detVars, smVars, hdVars, dispVars>>
    \/ \E hand \in CursorHands :
          FrameSkipped(hand) /\ UNCHANGED <<detVars, smVars, hdVars, dispVars>>
    \/ \E hand \in CursorHands, dt \in EngineSteps :
          FrameMapped(hand, dt) /\ UNCHANGED <<detVars, smVars, hdVars, dispVars>>

SpecFrames == InitFrames /\ [][NextFrames]_vars

\* an ActionDispatcher alone, called by a client; it is constructed stopped,
\* with the mouse enabled or not
InitDispatcher ==
    /\ \E enable_mouse \in BOOLEAN :
          dispatcher = [is_running |-> FALSE, enable_mouse |-> enable_mouse,
                        dragging |-> FALSE]
    /\ in_frame = "init"
    /\ DispatchInit
    /\ FrameInit
    /\ HandInit
    /\ SmootherInit
    /\ zone_config = DefaultZoneConfig
    /\ ZoneInit
    /\ now = Epoch
    /\ config = DefaultConfig
    /\ EngineInit
    /\ cfg = PinchParams(config)
    /\ DetInit

dispatcherFrame == <<now, detVars, engVars, in_frame, zoneVars, smVars, hdVars, frameVars>>

NextDispatcher ==
    \/ Start /\ UNCHANGED dispatcherFrame
    \/ \E ok \in BOOLEAN : Stop(ok) /\ UNCHANGED dispatcherFrame
    \/ \E type \in GestureType \ {NONE}, ok \in BOOLEAN :
          HandleGesture(type, ok) /\ UNCHANGED dispatcherFrame

SpecDispatcher == InitDispatcher /\ [][NextDispatcher]_vars

\* a client that reads the landmarks of a HandData
InitHand ==
    /\ hd_hand \in AllHands
    /\ hd_op = "init"
    /\ hd_index = 0
    /\ hd_out = [raised |-> "", value |-> None]
    /\ DispatchInit
    /\ FrameInit
    /\ SmootherInit
    /\ zone_config = DefaultZoneConfig
    /\ ZoneInit
    /\ now = Epoch
    /\ config = DefaultConfig
    /\ EngineInit
    /\ cfg = PinchParams(config)
    /\ DetInit
    /\ ControllerInit

NextHand ==
    \/ \E index \in LandmarkProperties :
          ReadProperty(index)
          /\ UNCHANGED <<now, detVars, engVars, ctlVars, zoneVars, smVars, dispVars, frameVars>>
    \/ \E index \in LandmarkIndices :
          GetLandmark(index)
          /\ UNCHANGED <<now, detVars, engVars, ctlVars, zoneVars, smVars, dispVars, frameVars>>

SpecHand == InitHand /\ [][NextHand]_vars

\* a client that constructs one smoother and calls it
InitSmoother ==
    /\ SmootherInit
    /\ HandInit
    /\ DispatchInit
    /\ FrameInit
    /\ zone_config = DefaultZoneConfig
    /\ ZoneInit
    /\ now = Epoch
    /\ config = DefaultConfig
    /\ EngineInit
    /\ cfg = PinchParams(config)
    /\ DetInit
    /\ ControllerInit

\* what a call on a smoother leaves alone
otherVars == <<now, detVars, engVars, ctlVars, zoneVars, hdVars, dispVars, frameVars>>

NextSmoother ==
    \/ \E alpha \in AlphaSet : NewEMA(alpha) /\ UNCHANGED otherVars
    \/ \E window_size \in WindowSizes : NewMA(window_size) /\ UNCHANGED otherVars
    \/ \E alpha \in AlphaSet, beta \in AlphaSet :
          NewDES(alpha, beta) /\ UNCHANGED otherVars
    \/ NewOneEuro /\ UNCHANGED otherVars
    \/ \E alpha \in AlphaSet, smoother_type \in SmootherTypes :
          NewPoint2D(alpha, smoother_type) /\ UNCHANGED otherVars
    \/ \E alpha \in AlphaSet : NewPoint3D(alpha) /\ UNCHANGED otherVars
    \/ \E v \in Inputs : UpdateEMA(v) /\ UNCHANGED otherVars
    \/ \E v \in DoubleInputs : UpdateMA(v) /\ UNCHANGED otherVars
    \/ \E v \in Inputs : UpdateDES(v) /\ UNCHANGED otherVars
    \/ \E v \in Inputs, t \in Timestamps : UpdateOneEuro(v, t) /\ UNCHANGED otherVars
    \/ \E p \in Points2D : UpdatePoint2D(p[1], p[2]) /\ UNCHANGED otherVars
    \/ \E p \in Points3D : UpdatePoint3D(p[1], p[2], p[3]) /\ UNCHANGED otherVars
    \/ ResetSmoother /\ UNCHANGED otherVars
    \/ \E alpha \in AlphaSet : SetAlpha(alpha) /\ UNCHANGED otherVars

SpecSmoother == InitSmoother /\ [][NextSmoother]_vars

\* a GestureEngine with registered observers, some of which raise: the hands
\* are a pinch held on the spot, an open hand away from it, the hands with a
\* fingertip missing, and no hand
ObserverHands ==
    {PinchingHand, [PinchingHand EXCEPT !.index = <<60, 50, 0>>],
     [PinchingHand EXCEPT !.is_valid = FALSE, !.count = 0]}
    \cup MissingHands
\* the gesture types observed and the sets of observers that may raise
ObservedTypes == {CURSOR_MOVE, DRAG_END}
RaisingSets == {{}, {1}}
ObserverSteps == {0, 2}

NextObservers ==
    \/ \E hand \in ObserverHands, dt \in ObserverSteps, raising \in RaisingSets :
          Process(hand, dt, raising) /\ UNCHANGED <<detVars, ctlVars, zoneVars, smVars, hdVars, dispVars, frameVars>>
    \/ Reset /\ UNCHANGED <<detVars, ctlVars, zoneVars, smVars, hdVars, dispVars, frameVars>>
    \/ \E t \in ObservedTypes, cb \in Observers :
          OnGesture(t, cb) /\ UNCHANGED <<detVars, ctlVars, zoneVars, smVars, hdVars, dispVars, frameVars>>

SpecObservers == InitEngine /\ [][NextObservers]_vars

\* a GestureEngine whose observers register and unregister observers while a
\* gesture is being dispatched to them
liveFrame == <<detVars, ctlVars, zoneVars, smVars, hdVars, dispVars, frameVars>>

NextLive ==
    \/ \E t \in ObservedTypes, cb \in Observers :
          OnGesture(t, cb) /\ UNCHANGED liveFrame
    \/ \E t \in ObservedTypes, cb \in Observers :
          OffGesture(t, cb) /\ UNCHANGED liveFrame
    \/ \E t \in ObservedTypes, acts \in [Observers -> ObserverActs] :
          TriggerLive(t, acts) /\ UNCHANGED liveFrame

SpecLive == InitEngine /\ [][NextLive]_vars


----------------------------------------------------------------------------
(* Claims about GestureEngine *)

Types(gestures) == [i \in 1..Len(gestures) |-> gestures[i].type]

\* the gestures _process_left_pinch can contribute to a list
LeftPinchEvents(gestures) ==
    Types(SelectSeq(gestures,
                    LAMBDA g : g.type \in {LEFT_CLICK, DRAG_START, DRAG_MOVE, DRAG_END}))

\* C1: on a process call with a valid hand and its three fingertips, the
\* left-pinch gesture is fixed by the left detector's state after the call and
\* the drag flag before it: HOLDING/not dragging gives DRAG_START and sets the
\* flag, HOLDING/dragging gives DRAG_MOVE, RELEASED/dragging gives DRAG_END and
\* clears the flag, RELEASED/not dragging gives LEFT_CLICK, TRIGGERED and IDLE
\* give nothing and keep the flag.
C1_LeftPinchMapping ==
    [][ (eng_op' = "process" /\ Complete(in_hand')) =>
          LET st == left_pinch'.state
              ev == LeftPinchEvents(returned')
          IN  /\ LeftPinchEvents(dispatched') = ev
              /\ (st = HOLDING /\ ~is_dragging) => (ev = <<DRAG_START>> /\ is_dragging')
              /\ (st = HOLDING /\ is_dragging) => (ev = <<DRAG_MOVE>> /\ is_dragging')
              /\ (st = RELEASED /\ is_dragging) => (ev = <<DRAG_END>> /\ ~is_dragging')
              /\ (st = RELEASED /\ ~is_dragging) => (ev = <<LEFT_CLICK>> /\ ~is_dragging')
              /\ (st \in {TRIGGERED, IDLE}) => (ev = <<>> /\ is_dragging' = is_dragging)
      ]_vars

\* a release observed while dragging: DRAG_END returned, flag cleared
C1_Witness ==
    /\ eng_op = "process" /\ Complete(in_hand)
    /\ left_pinch.state = RELEASED /\ ehist.held
    /\ LeftPinchEvents(returned) = <<DRAG_END>> /\ ~is_dragging

C3_AsStated ==
    [][ (eng_op' = "process" /\ ~in_hand'.is_valid) =>
          IF is_dragging
          THEN /\ dispatched' = <<Gesture(DRAG_END, last_position[1], <<>>)>>
               /\ returned' = dispatched'
               /\ ~is_dragging'
          ELSE returned' = <<>> /\ dispatched' = <<>>
      ]_vars

----------------------------------------------------------------------------
(* Claims about the controller pipeline, checked under SpecController *)

\* C4 as stated: a frame on which the hand is invalid, arriving while the
\* dispatcher holds the mouse button for a drag, releases the button.
C4_AsStated ==
    [][ (in_frame' = "no_hand" /\ dispatcher.dragging) => ~dispatcher'.dragging ]_vars

----------------------------------------------------------------------------
(* Claims about PinchDetector, checked under SpecPinch *)

\* the state changes of the documented cycle
Cycle ==
    {<<IDLE, TRIGGERED>>, <<TRIGGERED, RELEASED>>, <<TRIGGERED, HOLDING>>,
     <<HOLDING, RELEASED>>, <<RELEASED, IDLE>>}

\* C5: the only state changes made by update are IDLE->TRIGGERED,
\* TRIGGERED->RELEASED, TRIGGERED->HOLDING, HOLDING->RELEASED and
\* RELEASED->IDLE; any other change of state is a reset() landing in IDLE.
C5_CyclicLifecycle ==
    [][ \/ det'.state = det.state
        \/ det_op' = "update" /\ <<det.state, det'.state>> \in Cycle
        \/ det_op' = "reset" /\ det'.state = IDLE ]_vars

\* a full cycle through HOLDING has just been completed by update calls
C5_Witness ==
    /\ det_op = "update" /\ det.state = IDLE
    /\ hist.idle = Some(now) /\ hist.trig # None /\ hist.rel # None
    /\ hist.rel[1] - hist.trig[1] > cfg.hold_ms

\* C6: RELEASED is a one-tick pulse: an update made in RELEASED returns IDLE
\* whatever the distance and the clock.
C6_ReleasedIsPulse ==
    [][ (det.state = RELEASED /\ det_op' = "update") => det'.state = IDLE ]_vars

\* the update after RELEASED saw a pinch with the debounce window elapsed, and
\* still returned IDLE
C6_Witness ==
    /\ det_op = "update" /\ det.state = IDLE /\ hist.idle = Some(now)
    /\ in_distance < cfg.threshold
    /\ now - TimeOr0(hist.rel) > cfg.debounce_ms

\* C7: in TRIGGERED, update moves to RELEASED when distance >= threshold,
\* otherwise to HOLDING when more than hold_ms has elapsed since the trigger,
\* otherwise stays TRIGGERED; and HOLDING is only ever held by a detector whose
\* updates since the trigger all saw distance < threshold.
C7_TriggeredRule ==
    /\ [][ (det.state = TRIGGERED /\ det_op' = "update") =>
             det'.state = IF in_distance' >= cfg.threshold THEN RELEASED
                          ELSE IF now' - TimeOr0(hist.trig) > cfg.hold_ms THEN HOLDING
                          ELSE TRIGGERED ]_vars
    /\ [](det.state = HOLDING => hist.all_below)

\* HOLDING reached by the update that first saw the hold time exceeded
C7_Witness ==
    /\ det_op = "update" /\ det.state = HOLDING /\ det.was_pinched
    /\ now - TimeOr0(hist.trig) = cfg.hold_ms + 1

\* C8 as stated: in IDLE, update moves to TRIGGERED exactly when distance <
\* threshold and more than debounce_ms has elapsed since the last
\* RELEASED->IDLE transition, the call that performs RELEASED->IDLE being the
\* one that sets the debounce clock.
C8_AsStated ==
    /\ [][ (det.state = IDLE /\ det_op' = "update") =>
             (det'.state = TRIGGERED <=>
                (in_distance' < cfg.threshold
                 /\ now' - TimeOr0(hist.idle) > cfg.debounce_ms)) ]_vars
    /\ [][ (det.state = RELEASED /\ det_op' = "update") =>
             det'.last_trigger_time = now' ]_vars

\* C8 as amended: in IDLE, update moves to TRIGGERED exactly when distance <
\* threshold and more than debounce_ms has elapsed since the last entry into
\* RELEASED (time 0 when there was none); the debounce clock is set by the
\* call that enters RELEASED and by no other call.
C8_DebounceFromRelease ==
    /\ [][ (det.state = IDLE /\ det_op' = "update") =>
             (det'.state = TRIGGERED <=>
                (in_distance' < cfg.threshold
                 /\ now' - TimeOr0(hist.rel) > cfg.debounce_ms)) ]_vars
    /\ [][ det'.last_trigger_time =
             IF det.state # RELEASED /\ det'.state = RELEASED
             THEN now' ELSE det.last_trigger_time ]_vars

\* an update in IDLE triggered although the RELEASED->IDLE call was made
\* within the debounce window: the window had elapsed since the release
C8_Witness ==
    /\ det_op = "update" /\ det.state = TRIGGERED /\ hist.trig = Some(now)
    /\ hist.idle # None /\ hist.rel # None
    /\ now - hist.idle[1] <= cfg.debounce_ms
    /\ now - hist.rel[1] > cfg.debounce_ms

\* C9 as stated: in IDLE a pinch is accepted as soon as more than debounce_ms
\* has elapsed since the previous trigger, however recently it was released.
C9_AsStated ==
    [][ (/\ det.state = IDLE /\ det_op' = "update"
         /\ in_distance' < cfg.threshold
         /\ hist.trig # None
         /\ now' - TimeOr0(hist.trig) > cfg.debounce_ms)
        => det'.state = TRIGGERED ]_vars

\* C9 as amended: the window is measured from the previous release: a pinch
\* seen in IDLE after a release is accepted when more than debounce_ms has
\* elapsed since that release and refused otherwise, however long ago the
\* released pinch was triggered.
C9_WindowFromRelease ==
    [][ (/\ det.state = IDLE /\ det_op' = "update"
         /\ in_distance' < cfg.threshold
         /\ hist.rel # None)
        => IF now' - TimeOr0(hist.rel) > cfg.debounce_ms
           THEN det'.state = TRIGGERED
           ELSE det'.state = IDLE ]_vars

\* a pinch refused in IDLE more than debounce_ms after the previous trigger,
\* because the previous release is still within the window
C9_Witness ==
    /\ det_op = "update" /\ det.state = IDLE /\ in_distance < cfg.threshold
    /\ hist.trig # None /\ hist.rel # None /\ hist.idle # None
    /\ hist.idle[1] < now
    /\ now - hist.trig[1] > cfg.debounce_ms
    /\ now - hist.rel[1] <= cfg.debounce_ms

\* C10: reset() leaves the detector IDLE with both pinch flags cleared, and
\* from a reset until the next IDLE->TRIGGERED transition the detector is
\* never RELEASED.
C10_ResetNoPulse ==
    /\ det_op = "reset" =>
         (det.state = IDLE /\ ~det.is_pinched /\ ~det.was_pinched)
    /\ hist.fresh => det.state # RELEASED

\* reset() was called in HOLDING and the following update saw the fingers
\* apart, which without the reset would have been a release
C10_Witness ==
    /\ det_op = "update" /\ hist.fresh /\ hist.reset_from = HOLDING
    /\ in_distance >= cfg.threshold /\ det.state = IDLE

----------------------------------------------------------------------------
(* Further claims about GestureEngine *)

\* C11: a call emits RIGHT_CLICK, once, exactly when it is a process call on a
\* valid hand with its three fingertips whose update leaves the right detector
\* RELEASED; the detector was TRIGGERED or HOLDING before that call, so each
\* right pinch cycle that reaches RELEASED yields exactly one RIGHT_CLICK, on
\* the call that enters RELEASED.
C11_RightClickOnRelease ==
    [][ LET emits == eng_op' = "process" /\ Complete(in_hand')
                     /\ right_pinch'.state = RELEASED
        IN  /\ Count(returned', RIGHT_CLICK) = (IF emits THEN 1 ELSE 0)
            /\ Count(dispatched', RIGHT_CLICK) = Count(returned', RIGHT_CLICK)
            /\ emits => right_pinch.state \in {TRIGGERED, HOLDING}
      ]_vars

\* a right pinch released after more than the hold time: one RIGHT_CLICK
C11_Witness ==
    /\ eng_op = "process" /\ right_pinch.state = RELEASED
    /\ right_pinch.pinch_start_time # None
    /\ now - TimeOr0(right_pinch.pinch_start_time) > config.hold_time_ms
    /\ Count(returned, RIGHT_CLICK) = 1

\* position of a gesture type in the order cursor-move, left pinch, right pinch
Rank(type) ==
    CASE type = CURSOR_MOVE -> 1
      [] type \in {LEFT_CLICK, DRAG_START, DRAG_MOVE, DRAG_END} -> 2
      [] type = RIGHT_CLICK -> 3
      [] OTHER -> 0

\* at most one gesture of each rank, in increasing rank
InTickOrder(gestures) ==
    /\ \A i \in 1..Len(gestures) : Rank(gestures[i].type) > 0
    /\ \A i, j \in 1..Len(gestures) :
          i < j => Rank(gestures[i].type) < Rank(gestures[j].type)

\* the observer calls owed to a list of gestures: for each gesture in turn,
\* the observers registered for its type in registration order
RECURSIVE CallsOwed(_, _)
CallsOwed(cbs, gestures) ==
    IF gestures = <<>> THEN <<>>
    ELSE [i \in 1..Len(cbs[Head(gestures).type]) |->
             <<Head(gestures).type, cbs[Head(gestures).type][i]>>]
         \o CallsOwed(cbs, Tail(gestures))

\* the observer calls made, as <<type, observer>> pairs
CallsMade(inv) == [i \in 1..Len(inv) |-> <<inv[i].type, inv[i].cb>>]

\* C12 as stated: on every process call the events are in the order
\* cursor-move, left-pinch gesture, RIGHT_CLICK; the observers are invoked in
\* that order before the call returns; and the returned list holds the same
\* events in the same order as were dispatched.
C12_AsStated ==
    [][ eng_op' = "process" =>
          /\ InTickOrder(dispatched')
          /\ CallsMade(invoked') = CallsOwed(callbacks, dispatched')
          /\ ~raised'
          /\ returned' = dispatched'
      ]_vars

\* what a process call on a valid hand with its three fingertips yields at
\* clock reading t when no observer raises: the detectors, the drag flag, the
\* stored position and the gestures
QuietOutcome(hand, t) ==
    LET cursor_pos == <<hand.index[1], hand.index[2]>>
        left == PinchUpdate(PinchParams(config), left_pinch,
                            distance_to(hand.thumb, hand.index), t)
        right == PinchUpdate(PinchParams(config), right_pinch,
                             distance_to(hand.thumb, hand.middle), t)
        lp == ProcessLeftPinch(left.state, is_dragging, cursor_pos)
    IN  [left |-> left, right |-> right, dragging |-> lp.dragging,
         last |-> Some(cursor_pos),
         gestures |-> ProcessCursorMove(config, last_position, cursor_pos)
                      \o lp.gestures \o ProcessRightPinch(right.state, cursor_pos)]

\* C13: when an observer raises during a process call, the call still returns
\* normally; every observer registered for every gesture of the tick is
\* invoked, in order; the returned list, the detectors, the drag flag and the
\* stored position are those of the same call with no observer raising.
C13_RaiseIsContained ==
    [][ (eng_op' = "process" /\ \E i \in 1..Len(invoked') : invoked'[i].raises) =>
          /\ ~raised'
          /\ CallsMade(invoked') = CallsOwed(callbacks, dispatched')
          /\ IF in_hand'.is_valid
             THEN LET q == QuietOutcome(in_hand', now')
                  IN  /\ returned' = q.gestures /\ dispatched' = q.gestures
                      /\ left_pinch' = q.left /\ right_pinch' = q.right
                      /\ is_dragging' = q.dragging /\ last_position' = q.last
             ELSE /\ dispatched' = ResetOnNoHandGestures
                  /\ left_pinch' = PinchReset(left_pinch)
                  /\ right_pinch' = PinchReset(right_pinch)
                  /\ ~is_dragging' /\ last_position' = None
      ]_vars

\* the first CURSOR_MOVE observer raised; the second one and the observer of
\* the DRAG_END that follows in the same tick were still called
C13_Witness ==
    /\ eng_op = "process" /\ ~raised /\ Len(invoked) >= 3
    /\ invoked[1].type = CURSOR_MOVE /\ invoked[1].raises
    /\ invoked[2].type = CURSOR_MOVE /\ ~invoked[2].raises
    /\ invoked[Len(invoked)].type = DRAG_END
    /\ Types(returned) = <<CURSOR_MOVE, DRAG_END>>
    /\ last_position = Some(<<in_hand.index[1], in_hand.index[2]>>)

\* the (x, y) of a hand's index tip
CursorPos(hand) == <<hand.index[1], hand.index[2]>>

\* C14: a process call on a valid hand with its three fingertips emits
\* CURSOR_MOVE iff a previous position is stored and |dx| or |dy| strictly
\* exceeds velocity_threshold; the event is first in the list, carries the
\* index-tip (x, y) and the per-axis absolute deltas; and no position is stored
\* after construction, reset() or a call with an invalid hand, so the frame that
\* follows emits no CURSOR_MOVE.
C14_CursorMoveRule ==
    /\ [][ (eng_op' = "process" /\ Complete(in_hand')) =>
             LET pos == CursorPos(in_hand')
                 dx == Abs(pos[1] - last_position[1][1])
                 dy == Abs(pos[2] - last_position[1][2])
             IN  IF last_position # None
                    /\ (dx > config.velocity_threshold \/ dy > config.velocity_threshold)
                 THEN /\ Count(returned', CURSOR_MOVE) = 1
                      /\ returned'[1] = Gesture(CURSOR_MOVE, pos, <<dx, dy>>)
                 ELSE Count(returned', CURSOR_MOVE) = 0 ]_vars
    /\ []((eng_op \in {"init", "reset"} \/ (eng_op = "process" /\ ~in_hand.is_valid))
            => last_position = None)

\* a move along y only: dx within the threshold, dy beyond it
C14_Witness ==
    /\ eng_op = "process" /\ Complete(in_hand) /\ returned # <<>>
    /\ returned[1].type = CURSOR_MOVE
    /\ returned[1].position = CursorPos(in_hand)
    /\ returned[1].metadata[1] <= config.velocity_threshold
    /\ returned[1].metadata[2] > config.velocity_threshold

\* C15: after a process call on a valid hand with its three fingertips the
\* stored position is that frame's index-tip (x, y), whether or not a
\* CURSOR_MOVE was emitted; so when such a call follows another one, CURSOR_MOVE
\* is emitted iff the index tip moved by more than velocity_threshold on some
\* axis since the preceding frame.
C15_PositionTracksFrame ==
    /\ []((eng_op = "process" /\ Complete(in_hand))
            => last_position = Some(CursorPos(in_hand)))
    /\ [][ (/\ eng_op = "process" /\ Complete(in_hand)
            /\ eng_op' = "process" /\ Complete(in_hand')) =>
             (Count(returned', CURSOR_MOVE) = 1 <=>
                \E k \in 1..2 : Abs(CursorPos(in_hand')[k] - CursorPos(in_hand)[k])
                                   > config.velocity_threshold) ]_vars

\* a frame of a held pinch that emitted no CURSOR_MOVE and whose index tip,
\* away from the place where the pinch began, is the stored position
C15_Witness ==
    /\ eng_op = "process" /\ Complete(in_hand) /\ left_pinch.state = HOLDING
    /\ Count(returned, CURSOR_MOVE) = 0
    /\ CursorPos(in_hand) = <<53, 51>>
    /\ last_position = Some(<<53, 51>>)

\* C16: a process call on a valid hand that lacks the thumb, index or middle
\* tip returns no events, passes nothing to the observers, and leaves both
\* detectors (state, timers, flags), the drag flag and the stored position as
\* they were.
C16_MissingTipIsNoOp ==
    [][ (eng_op' = "process" /\ in_hand'.is_valid /\ ~Complete(in_hand')) =>
          /\ returned' = <<>> /\ dispatched' = <<>> /\ invoked' = <<>> /\ ~raised'
          /\ UNCHANGED <<left_pinch, right_pinch, is_dragging, last_position,
                         callbacks, now>>
      ]_vars

\* a frame without its index tip arrived during a drag observed for DRAG_END:
\* the drag, the held pinch and the stored position are all still there
C16_Witness ==
    /\ eng_op = "process" /\ in_hand.is_valid /\ in_hand.count = THUMB_TIP + 1
    /\ returned = <<>> /\ invoked = <<>>
    /\ is_dragging /\ left_pinch.state = HOLDING /\ last_position # None
    /\ callbacks[DRAG_END] # <<>>

\* C17: after a process call with an invalid hand both detectors are IDLE with
\* their pinch flags cleared and no position is stored; LEFT_CLICK and
\* RIGHT_CLICK are only emitted by a call that finds its detector TRIGGERED or
\* HOLDING, so the pinch cycle cut off by the loss emits none; and no call
\* emits CURSOR_MOVE while no position is stored.
C17_TrackingLossClears ==
    [][ /\ (eng_op' = "process" /\ ~in_hand'.is_valid) =>
              /\ left_pinch'.state = IDLE /\ right_pinch'.state = IDLE
              /\ ~left_pinch'.is_pinched /\ ~left_pinch'.was_pinched
              /\ ~right_pinch'.is_pinched /\ ~right_pinch'.was_pinched
              /\ last_position' = None
        /\ Count(dispatched', LEFT_CLICK) > 0 => left_pinch.state \in {TRIGGERED, HOLDING}
        /\ Count(dispatched', RIGHT_CLICK) > 0 => right_pinch.state \in {TRIGGERED, HOLDING}
        /\ (eng_op' = "process" /\ last_position = None)
              => Count(dispatched', CURSOR_MOVE) = 0
        /\ (eng_op = "process" /\ ~in_hand.is_valid)
              => \A i \in 1..Len(dispatched') :
                    dispatched'[i].type \notin {LEFT_CLICK, RIGHT_CLICK, CURSOR_MOVE}
      ]_vars

\* tracking was lost while both pinches were TRIGGERED: nothing was emitted
\* and both detectors are IDLE
C17_Witness ==
    /\ eng_op = "process" /\ ~in_hand.is_valid
    /\ ehist.lost = <<TRIGGERED, TRIGGERED>>
    /\ left_pinch.state = IDLE /\ right_pinch.state = IDLE
    /\ dispatched = <<>> /\ returned = <<>> /\ last_position = None

\* C18: reset(), in whatever state it is called, leaves both detectors IDLE,
\* the drag flag cleared and no position stored; it passes no gesture to the
\* observers, calls none of them, and leaves the registrations as they were.
C18_ResetIsSilent ==
    [][ eng_op' = "reset" =>
          /\ left_pinch'.state = IDLE /\ right_pinch'.state = IDLE
          /\ ~is_dragging' /\ last_position' = None
          /\ dispatched' = <<>> /\ invoked' = <<>> /\ ~raised'
          /\ callbacks' = callbacks
      ]_vars

\* reset() was called during a drag that has a DRAG_END observer: the drag
\* was dropped without its DRAG_END and the observer is still registered
C18_Witness ==
    /\ eng_op = "reset" /\ ehist.drag = "open" /\ ~is_dragging
    /\ left_pinch.state = IDLE /\ last_position = None
    /\ callbacks[DRAG_END] # <<>> /\ invoked = <<>> /\ dispatched = <<>>

\* C19 as stated: LEFT_CLICK is only emitted for a left pinch whose release
\* is observed within click_release_ms of its trigger.
C19_AsStated ==
    [][ Count(dispatched', LEFT_CLICK) > 0 =>
          now' - TimeOr0(left_pinch.pinch_start_time) <= config.click_release_ms
      ]_vars

----------------------------------------------------------------------------
(* Claims about ZoneMapper, checked under SpecZone *)

\* C20 as stated: with 0 <= margin <= dimension / 2 and smoothing in [0, 1],
\* every point returned by map_position lies in [margin, screen_width - margin]
\* x [margin, screen_height - margin].
C20_AsStated ==
    zone_op = "map_position" =>
       /\ zone_config.margin <= zone_out[1]
       /\ zone_out[1] <= zone_config.screen_width - zone_config.margin
       /\ zone_config.margin <= zone_out[2]
       /\ zone_out[2] <= zone_config.screen_height - zone_config.margin

\* ZoneConfig() on the screen it defaults to, 1920 x 1080
FullHDConfig ==
    [screen_width |-> 1920, screen_height |-> 1080, sensitivity |-> 100,
     invert_x |-> TRUE, invert_y |-> FALSE, margin |-> 10, smoothing |-> 0,
     zone_columns |-> 3, zone_rows |-> 3]

\* floor of the rational n / d, d > 0
Floor(n, d) == IF n >= 0 THEN n \div d ELSE 0 - ((d - 1 - n) \div d)

\* The reference pipeline of C21 for one axis, in the mapper's double
\* arithmetic: invert, scale about 0.5 by the sensitivity, clamp to [0, 1],
\* floor(x * dimension), clamp to [margin, dimension - margin].
RefAxis(x, invert, sensitivity, dimension, margin) ==
    LET inverted == IF invert THEN 100 - x ELSE x
        scaled   == 5000 + (inverted - 50) * sensitivity
        clamped  == IF scaled < 0 THEN 0 ELSE IF scaled > 10000 THEN 10000 ELSE scaled
        pixel    == Floor(clamped * dimension, 10000)
                    - (IF <<x, invert, sensitivity, dimension>> \in ScaleShortfall
                       THEN 1 ELSE 0)
    IN  IF pixel < margin THEN margin
        ELSE IF pixel > dimension - margin THEN dimension - margin ELSE pixel

\* The blend of the reference pipeline: (1 - smoothing) * new +
\* smoothing * previous, as the integer pixel the double value truncates to.
RefBlend(smoothing, new, previous) ==
    Trunc((100 - smoothing) * new + smoothing * previous, 100)
    - (IF <<smoothing, new, previous>> \in SmoothShortfall THEN 1 ELSE 0)

RefPipeline(c, last, pos) ==
    LET new_x == RefAxis(pos[1], c.invert_x, c.sensitivity, c.screen_width, c.margin)
        new_y == RefAxis(pos[2], c.invert_y, c.sensitivity, c.screen_height, c.margin)
    IN  IF c.smoothing > 0 /\ last # None
        THEN <<RefBlend(c.smoothing, new_x, last[1][1]),
               RefBlend(c.smoothing, new_y, last[1][2])>>
        ELSE <<new_x, new_y>>

C22_AsStated ==
    [][ (zone_op = "map_position" /\ zone_op' = "map_position" /\ zone_in' = zone_in)
          => zone_out' = zone_out
      ]_vars

\* C22, amended: the point returned is determined by the configuration, the
\* stored previous point and the position; with smoothing = 0 two consecutive
\* calls with the same position return the same point whatever was called
\* before, and so does the first call after a reset whatever the history.
C22_IdempotentUnsmoothed ==
    [][ zone_op' = "map_position" =>
          /\ (zone_config.smoothing = 0 /\ zone_op = "map_position" /\ zone_in' = zone_in)
                => zone_out' = zone_out
          /\ (zone_config.smoothing = 0 \/ zone_last = None)
                => zone_out' = <<MapAxis(zone_in'[1], zone_config.invert_x,
                                         zone_config.sensitivity,
                                         zone_config.screen_width, zone_config.margin),
                                 MapAxis(zone_in'[2], zone_config.invert_y,
                                         zone_config.sensitivity,
                                         zone_config.screen_height, zone_config.margin)>>
      ]_vars

\* an unsmoothed mapper was called twice in a row with one position and
\* holds the point it returned both times
C22_Witness ==
    /\ zone_op = "map_position" /\ zone_repeat
    /\ zone_config.smoothing = 0
    /\ zone_last = Some(zone_out) /\ zone_out # <<0, 0>>

----------------------------------------------------------------------------
(* Claims about the zone classification, checked under SpecGrid *)

GridPositions == GridCoords \X GridCoords

\* the cell, <<row, column>>, of the zone_rows x zone_columns grid that holds
\* a point of the unit square
GridCell(c, x, y) ==
    <<Min(Floor(y * c.zone_rows, 100), c.zone_rows - 1),
      Min(Floor(x * c.zone_columns, 100), c.zone_columns - 1)>>

\* the position get_zone classifies: the horizontal axis mirrored when
\* invert_x is set
Adjusted(c, pos) == <<IF c.invert_x THEN 100 - pos[1] ELSE pos[1], pos[2]>>

\* C23 as stated: for every grid size get_zone partitions the unit square
\* into zone_rows * zone_columns cells: positions in different cells of the
\* grid get different zones, and the zones returned over the square are as
\* many as the grid has cells.
C23_AsStated ==
    zone_op = "get_zone" =>
       /\ \A other \in GridPositions :
             LET a == Adjusted(zone_config, zone_in)
                 b == Adjusted(zone_config, other)
             IN  GridCell(zone_config, a[1], a[2]) # GridCell(zone_config, b[1], b[2])
                    => get_zone(zone_config, other) # zone_zone
       /\ Cardinality({get_zone(zone_config, p) : p \in GridPositions})
             = zone_config.zone_rows * zone_config.zone_columns

\* the cell of the 3 x 3 grid that holds a screen point
ScreenCell(c, point) ==
    <<Min(Floor(point[2] * 3, c.screen_height), 2),
      Min(Floor(point[1] * 3, c.screen_width), 2)>>

\* C24 as stated, on the default 3 x 3 grid: with sensitivity 1, margin 0
\* and smoothing 0 the zone reported for a position is the cell of the screen
\* where map_position places it, and the left / right / top / bottom flags
\* say whether map_position places it within the threshold of that edge.
C24_AsStated ==
    LET point == map_position(zone_config, None, zone_in)
        cell == ScreenCell(zone_config, point)
        near == EdgeThreshold
    IN  (zone_config.zone_rows = 3 /\ zone_config.zone_columns = 3) =>
          /\ zone_op = "get_zone" => zone_zone = zone_map[cell[1] * 3 + cell[2] + 1]
          /\ zone_op = "get_edge_proximity" =>
               /\ zone_edges.left = (point[1] * 100 < near * zone_config.screen_width)
               /\ zone_edges.right = (point[1] * 100 > (100 - near) * zone_config.screen_width)
               /\ zone_edges.top = (point[2] * 100 < near * zone_config.screen_height)
               /\ zone_edges.bottom = (point[2] * 100 > (100 - near) * zone_config.screen_height)

----------------------------------------------------------------------------
(* Claims about the smoothers, checked under SpecSmoother *)

\* the smoother held before and after the step, and the call's arguments
Before == sm[1]
After == sm'[1]

\* One update of an ExponentialMovingAverage, from filter f to filter g with
\* input v and result out, as C25 states it: the first update returns v and
\* marks the filter initialized, a later one returns
\* alpha * v + (1 - alpha) * previous output, exactly.
EmaRule(f, g, v, out) ==
    /\ g.initialized /\ g.value = Some(out) /\ g.alpha = f.alpha
    /\ ~f.initialized => out = v
    /\ f.initialized =>
          /\ 1000 * out = f.alpha * v + (1000 - f.alpha) * f.value[1]
          /\ f.alpha = 1000 => out = v
          /\ f.alpha = 0 => out = f.value[1]

\* C25: every update of an ExponentialMovingAverage follows EmaRule, and
\* Point2DSmoother (built on ExponentialMovingAverage, its default) and
\* Point3DSmoother follow it on each coordinate independently.
C25_EmaUpdate ==
    [][ sm_op' = "update" =>
          /\ After.kind = "ema" => EmaRule(Before, After, sm_in'[1], sm_out'[1])
          /\ (After.kind \in {"point2d", "point3d"} /\ After.x_smoother.kind = "ema") =>
                /\ EmaRule(Before.x_smoother, After.x_smoother, sm_in'[1], sm_out'[1])
                /\ EmaRule(Before.y_smoother, After.y_smoother, sm_in'[2], sm_out'[2])
          /\ After.kind = "point3d" =>
                EmaRule(Before.z_smoother, After.z_smoother, sm_in'[3], sm_out'[3])
      ]_vars

\* an ExponentialMovingAverage(0.5) returned a value that is neither its
\* input nor its previous output but their mean
C25_Witness ==
    /\ sm_op = "update" /\ sm # None /\ sm[1].kind = "ema"
    /\ sm[1].alpha = 500 /\ sm[1].initialized
    /\ sm_in = <<2 * Unit>> /\ sm_out = <<Unit + Unit \div 2>>

\* the sum of buffered values, added up in doubles from the oldest on
RECURSIVE DoubleSum(_)
DoubleSum(values) ==
    IF values = <<>> THEN Zero
    ELSE DAdd(DoubleSum(SubSeq(values, 1, Len(values) - 1)), values[Len(values)])

\* C26 as stated: a MovingAverage of size N holds at most N values, its
\* running sum is the sum of the values it holds, and the value an update
\* returns is the mean of the values it holds, the last min(k, N) inputs.
C26_AsStated ==
    (sm # None /\ sm[1].kind = "ma") =>
       /\ Len(sm[1].values) <= sm[1].window_size
       /\ sm[1].sum = DoubleSum(sm[1].values)
       /\ sm_op = "update" =>
            sm_out = <<DDiv(DoubleSum(sm[1].values), Len(sm[1].values))>>

\* the smoother a constructor returns for the parameters of m
FreshAxis(f) ==
    IF f.kind = "ema" THEN ExponentialMovingAverage(f.alpha)
    ELSE MovingAverage(f.window_size)

Fresh(m) ==
    CASE m.kind \in {"ema", "ma"} -> FreshAxis(m)
      [] m.kind = "des" -> DoubleExponentialSmoothing(m.alpha, m.beta)
      [] m.kind = "one_euro" -> OneEuroFilter(m.min_cutoff, m.beta, m.d_cutoff)
      [] m.kind = "point2d" ->
            Point2DSmoother(FreshAxis(m.x_smoother), FreshAxis(m.y_smoother))
      [] m.kind = "point3d" ->
            Point3DSmoother(FreshAxis(m.x_smoother), FreshAxis(m.y_smoother),
                            FreshAxis(m.z_smoother))

\* the arguments args of update, as update returns them when it returns
\* them unchanged: OneEuroFilter returns the value without the timestamp,
\* and a windowed smoother the double v / 1
ReturnedUnchanged(m, args) ==
    CASE m.kind = "one_euro" -> <<args[1]>>
      [] m.kind = "ma" -> <<DDiv(args[1], 1)>>
      [] m.kind \in {"point2d", "point3d"} /\ m.x_smoother.kind = "ma" ->
            [i \in DOMAIN args |-> DDiv(ToDouble(args[i]), 1)]
      [] OTHER -> args

\* C27: reset() leaves every smoother as its constructor would with the same
\* parameters, whatever was fed to it before, and the update that follows a
\* reset returns its input unchanged and leaves the smoother as the first
\* update of a new smoother would.
C27_ResetIsFresh ==
    [][ /\ sm_op' = "reset" => After = Fresh(Before)
        /\ (sm_op' = "update" /\ sm_op = "reset") =>
              /\ Before = Fresh(Before)
              /\ sm_out' = ReturnedUnchanged(After, sm_in')
      ]_vars

\* a windowed smoother was fed, reset, and fed 2^53, which it returned
C27_Witness ==
    /\ sm_op = "update" /\ sm_prev = "reset" /\ sm_updates >= 2
    /\ sm # None /\ sm[1].kind = "ma"
    /\ sm_in = <<Double(1, 0)>> /\ sm_out = <<DDiv(Double(1, 0), 1)>>

\* C28 as stated: a constructor given a smoothing factor outside [0, 1]
\* (ExponentialMovingAverage, DoubleExponentialSmoothing) or a window size
\* below 1 (MovingAverage) raises the validation error and returns no
\* smoother, and set_alpha with a factor outside [0, 1] raises it and leaves
\* the filter as it was.
C28_AsStated ==
    [][ /\ (sm_op' = "new" /\ sm_in'[1] \in {"ema", "des"} /\ ~ValidAlpha(sm_in'[2]))
              => (sm' = None /\ sm_raised' = "ValueError")
        /\ (sm_op' = "new" /\ sm_in'[1] = "ma" /\ sm_in'[2] < 1)
              => (sm' = None /\ sm_raised' = "ValueError")
        /\ (sm_op' = "set_alpha" /\ ~ValidAlpha(sm_in'[1]))
              => (sm' = sm /\ sm_raised' = "ValueError")
      ]_vars

\* C29: an update of a OneEuroFilter whose timestamp is not later than the
\* last accepted one raises nothing, returns what the last update returned,
\* and leaves the filter (last value, last time, both inner filters) as it
\* was, so that later samples are filtered as if it had not arrived.
C29_StaleSampleIsIgnored ==
    [][ ( /\ sm_op' = "update" /\ After.kind = "one_euro"
          /\ Before.last_time # None
          /\ sm_in'[2] <= Before.last_time[1] ) =>
             /\ sm_raised' = ""
             /\ After = Before
             /\ sm_out' = <<Before.last_value[1]>>
             /\ sm_op = "update" => sm_out' = sm_out
      ]_vars

\* a filter that has filtered samples was given one with an earlier
\* timestamp and another value, and returned its last output
C29_Witness ==
    /\ sm_op = "update" /\ sm # None /\ sm[1].kind = "one_euro"
    /\ sm_updates >= 3
    /\ sm_in[2] < sm[1].last_time[1]
    /\ sm[1].x_filter[1].initialized
    /\ sm_out = <<sm[1].last_value[1]>> /\ sm_out[1] # sm_in[1]

\* x lies strictly between a and b
StrictlyBetween(a, x, b) == (a < x /\ x < b) \/ (b < x /\ x < a)

\* C30 as stated: after update(v0, t0) on a new OneEuroFilter, update(v1, t1)
\* with t1 > t0 and v1 # v0 returns a value strictly between v0 and v1.
C30_AsStated ==
    [][ ( /\ sm_op' = "update" /\ After.kind = "one_euro"
          /\ sm_op = "update" /\ sm_updates = 1
          /\ sm_in'[2] > sm_in[2] /\ sm_in'[1] # sm_in[1] ) =>
             StrictlyBetween(sm_in[1], sm_out'[1], sm_in'[1])
      ]_vars

----------------------------------------------------------------------------
(* Claims about HandData, checked under SpecHand *)

\* C31 as stated: every landmark accessor of a HandData with is_valid = false
\* returns absent, and an accessor of a valid hand whose index is beyond the
\* landmarks list returns absent; neither fails.
C31_AsStated ==
    hd_op \in {"property", "get_landmark"} =>
       /\ ~hd_hand.is_valid => hd_out = [raised |-> "", value |-> None]
       /\ (hd_hand.is_valid /\ hd_index >= hd_hand.count)
             => hd_out = [raised |-> "", value |-> None]

----------------------------------------------------------------------------
(* Claims about ActionDispatcher, checked under SpecDispatcher *)

\* C32 as stated: when stop() has returned the drag executor is not dragging,
\* and the drag executor is never dragging while the dispatcher is stopped.
C32_AsStated ==
    /\ disp_op = "stop" => ~dispatcher.dragging
    /\ ~dispatcher.is_running => ~dispatcher.dragging

----------------------------------------------------------------------------
(* Claims about the drag flag, checked under SpecEngine *)

\* C33: after every process and reset call the drag flag is set if and only
\* if the left pinch detector is in state HOLDING.
C33_DragFlagIsHolding ==
    eng_op \in {"process", "reset"} => (is_dragging <=> left_pinch.state = HOLDING)

\* a process call has left the engine dragging, its left detector HOLDING
C33_Witness ==
    /\ eng_op = "process"
    /\ is_dragging
    /\ left_pinch.state = HOLDING

\* C34: whenever the drag flag is set after a process or reset call a last
\* position is stored, and the DRAG_END dispatched by a process call with an
\* invalid hand carries that stored position, which after a process call that
\* ran to its end is the index-tip position of that call's hand; it is never
\* the fallback taken when no position is stored.
C34_DragEndCarriesLastTip ==
    [][/\ (eng_op' \in {"process", "reset"} /\ is_dragging') => last_position' # None
       /\ (eng_op' = "process" /\ ~in_hand'.is_valid /\ is_dragging) =>
             /\ last_position # None
             /\ dispatched' = <<Gesture(DRAG_END, last_position[1], <<>>)>>
             /\ (eng_op = "process" /\ Complete(in_hand)) =>
                   dispatched'[1].position = <<in_hand.index[1], in_hand.index[2]>>]_vars

\* tracking was lost during a drag and the DRAG_END went out with the index-tip
\* position of the frame before
C34_Witness ==
    /\ eng_op = "process" /\ ~in_hand.is_valid
    /\ Len(dispatched) = 1
    /\ dispatched[1].type = DRAG_END
    /\ dispatched[1].position \in {<<h.index[1], h.index[2]>> : h \in Hands}
    /\ ehist.drag = "closed"

\* the set of gesture types in a list of gestures
TypeSet(gestures) == {gestures[i].type : i \in 1..Len(gestures)}

\* C35: no pulse-type gesture (LEFT_CLICK, RIGHT_CLICK, DRAG_START, DRAG_END)
\* is emitted by two consecutive process calls, whatever the distances, the
\* timing and the debounce time.
C35_NoPulseOnConsecutiveCalls ==
    [][(eng_op = "process" /\ eng_op' = "process") =>
          TypeSet(dispatched) \cap TypeSet(dispatched')
             \cap {LEFT_CLICK, RIGHT_CLICK, DRAG_START, DRAG_END} = {}]_vars

\* a click was emitted by a process call under a debounce time of 0
C35_Witness ==
    /\ eng_op = "process"
    /\ config.debounce_ms = 0
    /\ LEFT_CLICK \in TypeSet(dispatched)

----------------------------------------------------------------------------
(* A further claim about PinchDetector, checked under SpecPinch *)

\* C36: across update and reset calls the detector never enters TRIGGERED
\* within debounce_ms of its most recent entry into RELEASED; reset() does not
\* clear the debounce clock.
C36_DebounceSurvivesReset ==
    [][/\ (det.state # TRIGGERED /\ det'.state = TRIGGERED /\ hist.rel # None)
             => now' - hist.rel[1] > cfg.debounce_ms
       /\ det_op' = "reset" => det'.last_trigger_time = det.last_trigger_time]_vars

\* a pinch seen after a reset is refused because the release before the reset
\* is still within the debounce window
C36_Witness ==
    /\ det_op = "update" /\ det.state = IDLE /\ in_distance < cfg.threshold
    /\ hist.fresh /\ hist.reset_from # "" /\ hist.rel # None
    /\ now - hist.rel[1] <= cfg.debounce_ms

----------------------------------------------------------------------------
(* Further claims about ZoneMapper *)

\* C37 as stated: with 0 < smoothing < 1 and a constant input, repeated
\* map_position calls reach the unsmoothed target pixel from below and from
\* above; so a point that the next call with the same input returns again,
\* where the mapper stays for as long as the input stays, is the target.
C37_AsStated ==
    (/\ zone_op = "map_position"
     /\ 0 < zone_config.smoothing /\ zone_config.smoothing < 100
     /\ map_position(zone_config, zone_last, zone_in) = zone_out)
       => zone_out = map_position(zone_config, None, zone_in)

----------------------------------------------------------------------------
(* A claim about the controller's frame handling, checked under SpecFrames *)

\* C38 as stated: all gestures produced by one process call are given the same
\* screen_pos, for every ZoneConfig, smoothing > 0 included.
C38_AsStated ==
    \A i, j \in 1..Len(frame_pos) : frame_pos[i] = frame_pos[j]

----------------------------------------------------------------------------
(* A claim about a ZoneMapper whose screen size changes, checked under
   SpecResize *)

\* C39 as stated: after update_screen_size(w, h) every map_position result
\* lies within [margin, w - margin] x [margin, h - margin], the first call
\* after the change included.
C39_AsStated ==
    (zone_resized /\ zone_op = "map_position") =>
       /\ zone_config.margin <= zone_out[1]
       /\ zone_out[1] <= zone_config.screen_width - zone_config.margin
       /\ zone_config.margin <= zone_out[2]
       /\ zone_out[2] <= zone_config.screen_height - zone_config.margin

----------------------------------------------------------------------------
(* A claim about observers that change the registry during a dispatch,
   checked under SpecLive *)

\* the observers called, in order
Called(calls) == [i \in 1..Len(calls) |-> calls[i].cb]

\* C40 as stated: during the dispatch of a gesture every observer registered
\* for its type when the dispatch began is invoked exactly once, in
\* registration order, even if an observer calls off_gesture or on_gesture for
\* that type meanwhile.
C40_AsStated ==
    [][eng_op' = "trigger" =>
          LET before == callbacks[dispatched'[1].type]
          IN  SelectSeq(Called(invoked'),
                        LAMBDA cb : \E i \in 1..Len(before) : before[i] = cb) = before]_vars

====
